---- MODULE Spec2Model ----
(***************************************************************************)
(* Clairvox claim verification core: the confidence scorer, the classifier,*)
(* the domain rule engine, the fabrication detector, the cached source     *)
(* searches and the analyze_claim pipeline that sequences them.            *)
(*                                                                         *)
(* Texts are modelled at word level: a claim is a sequence of words, a     *)
(* query is a tagged tuple of words, and the string operations of the code *)
(* (lower(), substring tests, regular expressions) are tables over the     *)
(* small vocabulary the model draws its inputs from.                       *)
(***************************************************************************)
EXTENDS Integers, Sequences, FiniteSets, TLC

\* ------------------------------------------------------------------ bounds
\* longest evidence list handed to the scorer harness
MaxEvidence == 5
\* most contradiction records handed to the scorer harness
MaxContradictions == 5
\* longest evidence list handed to the classifier harness
MaxClassifyEvidence == 2

\* ----------------------------------------------------------------- helpers
Min(a, b) == IF a < b THEN a ELSE b
Max(a, b) == IF a > b THEN a ELSE b

\* s[:n] of Python
Take(s, n) == SubSeq(s, 1, Min(n, Len(s)))

SeqsUpTo(S, n) == UNION {[1..k -> S] : k \in 0..n}

RECURSIVE CountIf(_, _)
\* sum(1 for e in s if P(e)), with P given as the set of elements that satisfy it
CountIf(s, P) ==
    IF s = <<>> THEN 0
    ELSE (IF Head(s) \in P THEN 1 ELSE 0) + CountIf(Tail(s), P)

\* ------------------------------------------------------------- vocabulary
\* venues the sources of the model report
Venues == {"Nature", "The Lancet", "Neuroscience Letters", "arXiv",
           "ICML Proceedings", "Unknown venue"}

\* the keywords of the scorer's high-trust list that occur as substrings of
\* venue.lower()
KeywordsInVenue(venue) ==
    CASE venue = "Nature" -> {"nature"}
      [] venue = "The Lancet" -> {"lancet"}
      [] venue = "Neuroscience Letters" -> {"science"}
      [] OTHER -> {}

HighTrustKeywords ==
    {"journal", "nature", "science", "cell", "lancet", "nejm", "plos", "bmj",
     "pubmed", "crossref"}

\* --------------------------------------------------------- confidence scorer
HumanWeight == 30
PreclinicalWeight == 15
PenaltyPerContradiction == 10
PenaltyCap == 40

\* the condition of the scorer's first branch
IsHumanStudy(evidence) ==
    /\ evidence.type = "peer-reviewed"
    /\ KeywordsInVenue(evidence.venue) \cap HighTrustKeywords # {}

RECURSIVE TableSupport(_)
\* variant: the support is counted with the weights 50 and 20 of the WEIGHTS table
TableSupport(evidence_list) ==
    IF evidence_list = <<>> THEN 0
    ELSE (IF IsHumanStudy(Head(evidence_list)) THEN 50 ELSE 20)
         + TableSupport(Tail(evidence_list))

\* variant: every record carries the high-trust weight
EqualSupport(evidence_list) == Len(evidence_list) * HumanWeight

RECURSIVE WeightedSupport(_)
WeightedSupport(evidence_list) ==
    IF evidence_list = <<>> THEN 0
    ELSE (IF IsHumanStudy(Head(evidence_list)) THEN HumanWeight
          ELSE PreclinicalWeight) + WeightedSupport(Tail(evidence_list))

EvidenceDriver(evidence) ==
    IF IsHumanStudy(evidence)
    THEN <<"human peer-reviewed study found", evidence.doi>>
    ELSE <<"preclinical/mechanistic study found", evidence.doi>>

\* variant: contradictions carry no penalty
NoPenalty(contradictions) == 0

\* variant: the penalty grows with every contradiction, without a cap
UncappedPenalty(contradictions) == Len(contradictions) * PenaltyPerContradiction

WeightedContradiction(contradictions) ==
    IF Len(contradictions) > 0
    THEN Min(Len(contradictions) * PenaltyPerContradiction, PenaltyCap)
    ELSE 0

\* variant: a clamp that has lost its ceiling
ClampFloorOnly(raw_score) == Max(0, raw_score)

\* max(0, min(100, raw_score))
ClampScore(raw_score) == Max(0, Min(100, raw_score))

\* variant: a score of 0 is always put down to contradictions
BandDriverBlamingContradictions(confidence_score, evidence_list) ==
    IF confidence_score = 0
    THEN <<"strong contradictions override supporting evidence">>
    ELSE IF confidence_score < 50 THEN <<"very weak or contradicted evidence">>
    ELSE <<"mixed evidence with some supporting sources but limited confidence">>

\* the qualitative line chosen by the score
BandDriver(confidence_score, evidence_list) ==
    IF confidence_score = 0
    THEN (IF evidence_list = <<>> THEN <<"no credible evidence found">>
          ELSE <<"strong contradictions override supporting evidence">>)
    ELSE IF confidence_score < 30 THEN <<"very weak or contradicted evidence">>
    ELSE IF confidence_score < 50
    THEN <<"limited evidence with significant gaps or contradictions">>
    ELSE IF confidence_score < 70
    THEN <<"mixed evidence with some supporting sources but limited confidence">>
    ELSE IF confidence_score < 90
    THEN <<"good evidence but not yet fully established or lacks peer review">>
    ELSE <<"strong primary evidence with peer-reviewed sources and replications">>

\* variant: every driver line is returned
ScoreWithAllDrivers(evidence_list, contradictions) ==
    LET raw_score == WeightedSupport(evidence_list)
                     - WeightedContradiction(contradictions)
        confidence_score == ClampScore(raw_score)
        drivers ==
            [i \in 1..Len(evidence_list) |-> EvidenceDriver(evidence_list[i])]
            \o (IF Len(contradictions) > 0
                THEN << <<"contradicted by", Len(contradictions)>> >>
                ELSE <<>>)
            \o << BandDriver(confidence_score, evidence_list) >>
    IN [score |-> confidence_score, drivers |-> drivers]

\* returns the pair (confidence_score, drivers[:3]) as a record.  raw_score is
\* an int, so round() returns it unchanged.
calculate_confidence_score(evidence_list, contradictions) ==
    LET raw_score == WeightedSupport(evidence_list)
                     - WeightedContradiction(contradictions)
        confidence_score == ClampScore(raw_score)
        drivers ==
            [i \in 1..Len(evidence_list) |-> EvidenceDriver(evidence_list[i])]
            \o (IF Len(contradictions) > 0
                THEN << <<"contradicted by", Len(contradictions)>> >>
                ELSE <<>>)
            \o << BandDriver(confidence_score, evidence_list) >>
    IN [score |-> confidence_score, drivers |-> Take(drivers, 3)]

\* variant: the band edges 30 and 70 fall into the next band
ColorWithOpenEdges(score) ==
    IF score = 0 THEN "red"
    ELSE IF score < 30 THEN "orange"
    ELSE IF score < 70 THEN "yellow"
    ELSE "green"

get_confidence_color(score) ==
    IF score = 0 THEN "red"
    ELSE IF score <= 30 THEN "orange"
    ELSE IF score <= 70 THEN "yellow"
    ELSE "green"

\* variant: "Fully Supported" without the peer-review gate
ClassificationWithoutGate(score, fabricated_terms, plausibility_result, evidence_list) ==
    IF fabricated_terms # <<>> \/ ~plausibility_result.overall_plausible
    THEN (IF fabricated_terms # <<>> THEN "Fabricated"
          ELSE "Physically Implausible")
    ELSE IF score >= 90 THEN "Fully Supported"
    ELSE IF score >= 50 THEN "Partially Supported"
    ELSE "Unsupported"

\* variant: the earlier scheme of "Supported" and "Weakly Supported"
FourTierClassification(score, fabricated_terms, plausibility_result, evidence_list) ==
    IF fabricated_terms # <<>> \/ ~plausibility_result.overall_plausible
    THEN (IF fabricated_terms # <<>> THEN "Fabricated"
          ELSE "Physically Implausible")
    ELSE IF score >= 80 THEN "Supported"
    ELSE IF score >= 50 THEN "Weakly Supported"
    ELSE "Unsupported"

get_classification(score, fabricated_terms, plausibility_result, evidence_list) ==
    IF fabricated_terms # <<>> \/ ~plausibility_result.overall_plausible
    THEN (IF fabricated_terms # <<>> THEN "Fabricated"
          ELSE "Physically Implausible")
    ELSE LET peer_reviewed_count ==
                 CountIf(evidence_list,
                         {e \in {evidence_list[i] : i \in 1..Len(evidence_list)} :
                              e.type = "peer-reviewed"})
         IN IF score >= 90 /\ peer_reviewed_count >= 1 THEN "Fully Supported"
            ELSE IF score >= 50 THEN "Partially Supported"
            ELSE "Unsupported"

\* --------------------------------------------------------------- word tables
\* str.lower() on the words, titles and identifiers of the model
Lower(w) ==
    CASE w = "Telepathic" -> "telepathic"
      [] w = "Memory" -> "memory"
      [] w = "Instantaneous" -> "instantaneous"
      [] w = "QuantumFlux-Neuro" -> "quantumflux-neuro"
      [] w = "Does" -> "does"
      [] w = "The" -> "the"
      [] w = "Zorb" -> "zorb"
      [] w = "Memory fades with age" -> "memory fades with age"
      [] w = "Forgetting curves" -> "forgetting curves"
      [] w = "No evidence memory fades" -> "no evidence memory fades"
      [] w = "Exercise improves memory" -> "exercise improves memory"
      [] w = "Memory decay" -> "memory decay"
      [] w = "Models of memory" -> "models of memory"
      [] w = "Fading signals" -> "fading signals"
      [] w = "No title available" -> "no title available"
      [] w = "10.1038/M1" -> "10.1038/m1"
      [] OTHER -> w

\* re.sub(r'[^\w\s]', '', w): the word without its punctuation
StripPunct(w) ==
    CASE w = "quantumflux-neuro" -> "quantumfluxneuro"
      [] w = "gravito-electroencephalography" -> "gravitoelectroencephalography"
      [] OTHER -> w

LowerAll(words) == [i \in 1..Len(words) |-> Lower(words[i])]

\* a pattern fragment occurs in a lower-cased word of the claim
ContainsFragment(word, fragment) ==
    \/ fragment = word
    \/ <<word, fragment>> \in {<<"machines", "machine">>, <<"telepathically", "telepathic">>}

RECURSIVE re_search(_, _)
\* re.search of fragment1.*fragment2.*... in the lower-cased claim, one
\* fragment per word, in order
re_search(pattern, words) ==
    IF pattern = <<>> THEN TRUE
    ELSE IF words = <<>> THEN FALSE
    ELSE IF ContainsFragment(Head(words), Head(pattern))
    THEN re_search(Tail(pattern), Tail(words))
    ELSE re_search(pattern, Tail(words))

\* -------------------------------------------------------- domain rule engine
PhysicsPatterns ==
    << <<"perpetual", "motion", "machine">>,
       <<"energy", "from", "nothing">>,
       <<"faster", "than", "light", "travel">>,
       <<"instantaneous", "information", "transfer">>,
       <<"violates", "conservation", "of", "energy">>,
       <<"breaks", "thermodynamics">> >>

NeurosciencePatterns ==
    << <<"instantaneous", "memory", "transfer">>,
       <<"telepathic", "communication">>,
       <<"reading", "minds", "directly">>,
       <<"consciousness", "upload", "without", "technology">> >>

StatisticsPatterns ==
    << <<"correlation", "greater", "than", "1">>,
       <<"probability", "greater", "than", "1">>,
       <<"negative", "variance">>,
       <<"standard", "deviation", "negative">> >>

RECURSIVE CollectViolations(_, _, _)
\* the loop over impossible_patterns: one violation appended per pattern found
CollectViolations(patterns, words, violation) ==
    IF patterns = <<>> THEN <<>>
    ELSE (IF re_search(Head(patterns), words) THEN <<violation>> ELSE <<>>)
         \o CollectViolations(Tail(patterns), words, violation)

CheckRules(domain, patterns, rule, claim) ==
    LET violations ==
            CollectViolations(patterns, LowerAll(claim),
                              [rule |-> rule, severity |-> "critical"])
    IN [domain |-> domain, violations |-> violations,
        is_plausible |-> Len(violations) = 0]

_check_physics_rules(claim) ==
    CheckRules("physics", PhysicsPatterns, "fundamental_physics_violation", claim)

_check_neuroscience_rules(claim) ==
    CheckRules("neuroscience", NeurosciencePatterns, "neuroscience_impossibility", claim)

_check_statistics_rules(claim) ==
    CheckRules("statistics", StatisticsPatterns, "statistical_impossibility", claim)

Domains == {"physics", "neuroscience", "statistics"}

HasCritical(result) ==
    \E i \in 1..Len(result.violations) : result.violations[i].severity = "critical"

check_claim_plausibility(claim) ==
    LET results ==
            [d \in Domains |->
                CASE d = "physics" -> _check_physics_rules(claim)
                  [] d = "neuroscience" -> _check_neuroscience_rules(claim)
                  [] d = "statistics" -> _check_statistics_rules(claim)]
        all_plausible == \A d \in Domains : results[d].is_plausible
        critical_violations == \E d \in Domains : HasCritical(results[d])
    IN [overall_plausible |-> all_plausible /\ ~critical_violations,
        critical_violations |-> critical_violations,
        domain_results |-> results]

\* ------------------------------------------------------ fabrication detector
\* re.findall(r'\b[A-Z][a-zA-Z]*(?:-[A-Z][a-zA-Z]*)*\b', w) on one word
TermsInWord(w) ==
    IF w \in {"Telepathic", "Memory", "Instantaneous", "QuantumFlux-Neuro",
              "Does", "The", "Zorb"}
    THEN <<w>> ELSE <<>>

common_words ==
    {"The", "This", "That", "These", "Those", "A", "An", "And", "Or", "But",
     "In", "On", "At", "To", "For", "Of", "With", "By"}

RECURSIVE technical_terms(_)
\* the candidate terms of the text, common words filtered out
technical_terms(text) ==
    IF text = <<>> THEN <<>>
    ELSE SelectSeq(TermsInWord(Head(text)), LAMBDA t : t \notin common_words)
         \o technical_terms(Tail(text))

\* len(w)
WordLen(w) ==
    CASE w \in {"1", "a"} -> 1
      [] w \in {"of", "to"} -> 2
      [] w \in {"The", "the", "any", "age"} -> 3
      [] w \in {"Does", "does", "with", "work", "fade", "from", "than",
                "Zorb", "zorb"} -> 4
      [] w \in {"works", "fades", "light"} -> 5
      [] w \in {"Memory", "memory", "motion", "energy", "travel"} -> 6
      [] w \in {"machine"} -> 7
      [] w \in {"improves", "exercise", "transfer", "distance", "restores"} -> 8
      [] w \in {"perpetual", "knowledge"} -> 9
      [] w \in {"Telepathic", "telepathic"} -> 10
      [] w \in {"information"} -> 11
      [] w \in {"communication", "Instantaneous", "instantaneous"} -> 13
      [] w \in {"quantumfluxneuro"} -> 16
      [] w \in {"QuantumFlux-Neuro", "quantumflux-neuro"} -> 17
      [] w \in {"gravitoelectroencephalography"} -> 29
      [] w \in {"gravito-electroencephalography"} -> 30
      [] OTHER -> 6

normalize_term(term) == StripPunct(Lower(term))

\* the single-character vowel substitutions of a term, in generation order
\* (position by position, vowels in the order a e i o u, the character
\* already there skipped)
Substitutions(term) ==
    CASE term = "memory" ->
            <<"aemory", "eemory", "iemory", "oemory", "uemory",
              "mamory", "mimory", "momory", "mumory", "meaory">>
      [] term = "telepathic" ->
            <<"aelepathic", "eelepathic", "ielepathic", "oelepathic",
              "uelepathic", "talepathic", "tilepathic", "tolepathic",
              "tulepathic", "teaepathic">>
      [] term = "quantumfluxneuro" ->
            <<"auantumfluxneuro", "euantumfluxneuro", "iuantumfluxneuro",
              "ouantumfluxneuro", "uuantumfluxneuro", "qaantumfluxneuro",
              "qeantumfluxneuro", "qiantumfluxneuro", "qoantumfluxneuro",
              "quentumfluxneuro">>
      [] term = "instantaneous" ->
            <<"anstantaneous", "enstantaneous", "onstantaneous",
              "unstantaneous", "iastantaneous", "iestantaneous",
              "iistantaneous", "iostantaneous", "iustantaneous",
              "inatantaneous">>
      [] term = "zorb" ->
            <<"aorb", "eorb", "iorb", "oorb", "uorb", "zarb", "zerb", "zirb",
              "zurb", "zoab">>
      [] OTHER -> <<>>

FuzzyLimit == 10
FuzzyTried == 3

fuzzy_search(term) == Take(<<term>> \o Substitutions(term), FuzzyLimit)

\* --------------------------------------------------------------- query model
\* A query string: "w1 w2" is a phrase, "c" OR "s1" OR ... an or-query,
\* "c1" AND "c2" an and-query, "claim" AND "marker" a contradiction query.
Phrase(words) == [kind |-> "phrase", words |-> words, marker |-> ""]
OrQuery(words) == [kind |-> "or", words |-> words, marker |-> ""]
AndQuery(c1, c2) == [kind |-> "and", words |-> <<c1, c2>>, marker |-> ""]
ContraQuery(words, marker) == [kind |-> "contra", words |-> words, marker |-> marker]

\* ------------------------------------------------------------ query expander
\* Python's iteration order of a set of strings depends on the process's
\* string-hash seed: it is fixed within a run and differs between runs.  The
\* model orders a set by WordOrder and rotates it by the seed.
NumSeeds == 2

WordOrder ==
    <<"memory", "fade", "fades", "work", "works", "exercise", "improves",
      "health", "recall", "retention", "learning", "cognition", "remembering",
      "storage", "disappearance", "employment", "physical activity",
      "aerobic exercise", "cardio", "fitness", "workout", "perpetual",
      "motion", "machine", "telepathic", "communication", "quantumfluxneuro",
      "gravitoelectroencephalography",
      "instantaneous", "information", "knowledge", "transfer", "distance",
      "across", "zorb", "restores">>

Rank(w) == CHOOSE i \in 1..Len(WordOrder) : WordOrder[i] = w

RECURSIVE SortedSeq(_)
SortedSeq(S) ==
    IF S = {} THEN <<>>
    ELSE LET m == CHOOSE x \in S : \A y \in S : Rank(x) <= Rank(y)
         IN <<m>> \o SortedSeq(S \ {m})

\* list(S) under the given hash seed
ListOfSet(S, seed) ==
    LET s == SortedSeq(S)
        n == Len(s)
        k == IF n = 0 THEN 0 ELSE (seed - 1) % n
    IN SubSeq(s, k + 1, n) \o SubSeq(s, 1, k)

\* nltk's English stop words, within the vocabulary
stop_words ==
    {"the", "does", "of", "from", "than", "with", "without", "any", "a", "to"}

\* str.isalpha()
IsAlpha(w) == w \notin {"1", "quantumflux-neuro", "gravito-electroencephalography"}

\* WordNetLemmatizer.lemmatize(w): the noun lemma
Lemmatize(w) ==
    CASE w = "works" -> "work"
      [] w = "fades" -> "fade"
      [] w = "machines" -> "machine"
      [] OTHER -> w

extract_key_concepts(text, seed) ==
    LET words == SelectSeq(LowerAll(text),
                           LAMBDA w : IsAlpha(w) /\ w \notin stop_words)
        lemmatized_words == [i \in 1..Len(words) |-> Lemmatize(words[i])]
        filtered_words == SelectSeq(lemmatized_words, LAMBDA w : WordLen(w) > 3)
    IN ListOfSet({filtered_words[i] : i \in 1..Len(filtered_words)}, seed)

mesh_terms(word) ==
    CASE word = "exercise" ->
            {"physical activity", "aerobic exercise", "cardio", "fitness", "workout"}
      [] word = "memory" ->
            {"recall", "retention", "learning", "cognition", "remembering"}
      [] OTHER -> {}

\* the lemma names WordNet lists for the word, other than the word itself
WordNetSynonyms(word) ==
    CASE word = "memory" -> {"retention", "storage", "remembering"}
      [] word = "fade" -> {"disappearance"}
      [] word = "work" -> {"employment"}
      [] word = "exercise" -> {"workout"}
      [] OTHER -> {}

get_synonyms(word, seed) ==
    ListOfSet(WordNetSynonyms(word) \cup mesh_terms(word), seed)

\* the paraphrase table, in the dictionary's order
paraphrase_patterns ==
    << [original |-> "causes",
        alternatives |-> <<"leads to", "results in", "induces", "triggers", "promotes">>],
       [original |-> "prevents",
        alternatives |-> <<"reduces", "decreases", "inhibits", "blocks", "protects against">>],
       [original |-> "improves",
        alternatives |-> <<"enhances", "boosts", "increases", "strengthens", "optimizes">>],
       [original |-> "effective",
        alternatives |-> <<"beneficial", "helpful", "successful", "useful", "valuable">>],
       [original |-> "study",
        alternatives |-> <<"research", "investigation", "trial", "experiment", "analysis">>],
       [original |-> "shows",
        alternatives |-> <<"demonstrates", "indicates", "suggests", "reveals", "finds">>] >>

\* claim.lower().replace(original, alternative), word by word
ReplaceWord(words, original, alternative) ==
    [i \in 1..Len(words) |-> IF words[i] = original THEN alternative ELSE words[i]]

RECURSIVE ParaphrasesFrom(_, _)
ParaphrasesFrom(patterns, words) ==
    IF patterns = <<>> THEN <<>>
    ELSE LET p == Head(patterns)
         IN (IF \E i \in 1..Len(words) : words[i] = p.original
             THEN [j \in 1..Len(p.alternatives) |->
                      ReplaceWord(words, p.original, p.alternatives[j])]
             ELSE <<>>)
            \o ParaphrasesFrom(Tail(patterns), words)

generate_paraphrased_queries(claim) ==
    ParaphrasesFrom(paraphrase_patterns, LowerAll(claim))

RECURSIVE PhrasesFrom(_, _)
\* the double loop of _extract_phrases from start index i (0-based)
PhrasesFrom(words, i) ==
    IF i >= Len(words) - 1 THEN <<>>
    ELSE LET last == Min(i + 5, Len(words) + 1) - 1
         IN [k \in 1..Max(0, last - (i + 2) + 1) |-> SubSeq(words, i + 1, i + 1 + k)]
            \o PhrasesFrom(words, i + 1)

MaxParaphrases == 3
MaxConcepts == 5
MaxSynonyms == 5
MaxPhrases == 5
MaxQueries == 12

_extract_phrases(text) == Take(PhrasesFrom(LowerAll(text), 0), MaxPhrases)

ConceptQuery(concept, seed) ==
    LET synonyms == Take(get_synonyms(concept, seed), MaxSynonyms)
    IN IF synonyms # <<>> THEN OrQuery(<<concept>> \o synonyms)
       ELSE Phrase(<<concept>>)

\* variant: the list of queries is returned without the final truncation
UntruncatedQueries(claim, seed) ==
    LET concepts == extract_key_concepts(claim, seed)
        paraphrases == Take(generate_paraphrased_queries(claim), MaxParaphrases)
        top == Take(concepts, MaxConcepts)
        phrases == _extract_phrases(claim)
    IN <<Phrase(claim)>>
       \o [i \in 1..Len(paraphrases) |-> Phrase(paraphrases[i])]
       \o [i \in 1..Len(top) |-> ConceptQuery(top[i], seed)]
       \o (IF Len(concepts) >= 2
           THEN [i \in 1..(Len(concepts) - 1) |->
                    AndQuery(concepts[i], concepts[i + 1])]
           ELSE <<>>)
       \o [i \in 1..Len(phrases) |-> Phrase(phrases[i])]

generate_concept_queries(claim, seed) ==
    LET concepts == extract_key_concepts(claim, seed)
        paraphrases == Take(generate_paraphrased_queries(claim), MaxParaphrases)
        top == Take(concepts, MaxConcepts)
        phrases == _extract_phrases(claim)
        queries ==
            <<Phrase(claim)>>
            \o [i \in 1..Len(paraphrases) |-> Phrase(paraphrases[i])]
            \o [i \in 1..Len(top) |-> ConceptQuery(top[i], seed)]
            \o (IF Len(concepts) >= 2
                THEN [i \in 1..(Len(concepts) - 1) |->
                         AndQuery(concepts[i], concepts[i + 1])]
                ELSE <<>>)
            \o [i \in 1..Len(phrases) |-> Phrase(phrases[i])]
    IN Take(queries, MaxQueries)

\* ------------------------------------------------------- metadata validator
NoUrl == [site |-> "", id |-> ""]

\* extract_doi_fallback on a URL of the model: the DOI pattern is found in
\* doi.org links only
extract_doi_fallback(url) == IF url.site = "doi.org" THEN url.id ELSE ""

ExcerptLimit == 200
EllipsisLen == 3

\* variant: a long excerpt is left as it is
ValidateKeepingExcerpt(result) ==
    LET doi == IF result.doi = "" /\ result.url # NoUrl
               THEN extract_doi_fallback(result.url) ELSE result.doi
        url == IF result.doi = "" /\ result.url # NoUrl /\ doi # ""
               THEN [site |-> "doi.org", id |-> doi] ELSE result.url
    IN [result EXCEPT
          !.doi = doi,
          !.url = url,
          !.title = IF result.title = "" THEN "No title available" ELSE result.title,
          !.venue = IF result.venue = "" THEN "Unknown venue" ELSE result.venue]

validate_metadata(result) ==
    LET doi == IF result.doi = "" /\ result.url # NoUrl
               THEN extract_doi_fallback(result.url) ELSE result.doi
        url == IF result.doi = "" /\ result.url # NoUrl /\ doi # ""
               THEN [site |-> "doi.org", id |-> doi] ELSE result.url
    IN [result EXCEPT
          !.doi = doi,
          !.url = url,
          !.title = IF result.title = "" THEN "No title available" ELSE result.title,
          !.venue = IF result.venue = "" THEN "Unknown venue" ELSE result.venue,
          !.excerpt = IF result.excerpt.len > ExcerptLimit
                      THEN [result.excerpt EXCEPT !.len = ExcerptLimit + EllipsisLen]
                      ELSE result.excerpt]

\* ------------------------------------------------------------------ sources
Sources == <<"crossref", "pubmed", "arxiv">>
SourceSet == {"crossref", "pubmed", "arxiv"}

\* an item of an upstream catalog: what the catalog reports for a work, and
\* the phrases and contradiction markers under which the catalog finds it
Item(title, venue, doi, id, abstract_len, abstract_words, index, markers) ==
    [title |-> title, venue |-> venue, doi |-> doi, id |-> id,
     abstract |-> [len |-> abstract_len, words |-> abstract_words],
     index |-> index, markers |-> markers]

Worlds == {"empty", "rich", "thin"}

Catalog(world, source) ==
    CASE world = "rich" /\ source = "crossref" ->
            << Item("Memory fades with age", "Nature", "10.1038/m1", "", 300, {},
                    {<<"memory">>, <<"fade">>, <<"memory", "fades">>}, {}),
               Item("Forgetting curves", "The Lancet", "10.1016/l2", "", 120,
                    {"mechanism"}, {<<"memory", "fades">>}, {}),
               Item("No evidence memory fades", "", "10.1000/c1", "", 0, {},
                    {<<"memory", "fades">>}, {"no evidence"}),
               Item("Exercise improves memory", "Nature", "10.1038/e4", "", 210, {},
                    {<<"exercise", "improves", "memory">>, <<"exercise">>}, {}) >>
      [] world = "rich" /\ source = "pubmed" ->
            << Item("Memory fades with age", "Nature", "10.1038/m1", "p1", 250, {},
                    {<<"memory">>, <<"memory", "fades">>}, {}),
               Item("Memory decay", "Neuroscience Letters", "10.1016/n3", "p3", 80,
                    {"pathway"},
                    {<<"memory">>, <<"fade">>}, {}) >>
      [] world = "rich" /\ source = "arxiv" ->
            << Item("Models of memory", "", "", "abs/1", 0, {},
                    {<<"memory">>}, {}) >>
      [] world = "thin" /\ source = "crossref" ->
            << Item("", "", "10.1000/t1", "", 0, {"memory", "fades"},
                    {<<"memory", "fades">>, <<"fade">>}, {}) >>
      [] world = "thin" /\ source = "pubmed" ->
            << Item("Aorb dynamics", "", "", "p9", 0, {},
                    {<<"aorb">>}, {}) >>
      [] world = "thin" /\ source = "arxiv" ->
            << Item("Fading signals", "", "", "abs/2", 0, {},
                    {<<"fade">>, <<"memory", "fades">>}, {}) >>
      [] OTHER -> <<>>

Matches(item, query) ==
    CASE query.kind = "phrase" -> query.words \in item.index
      [] query.kind = "or" ->
            \E i \in 1..Len(query.words) : <<query.words[i]>> \in item.index
      [] query.kind = "and" ->
            \A i \in 1..Len(query.words) : <<query.words[i]>> \in item.index
      [] query.kind = "contra" ->
            query.words \in item.index /\ query.marker \in item.markers

\* the items the catalog answers with: the matching ones, at most `rows`
Upstream(world, source, query, rows) ==
    Take(SelectSeq(Catalog(world, source), LAMBDA item : Matches(item, query)), rows)

ExcerptOf(item) == [item.abstract EXCEPT !.len = Min(item.abstract.len, ExcerptLimit)]

\* the result dictionary each search builds from an item, before validation
CrossrefResult(item) ==
    [type |-> "peer-reviewed", title |-> item.title, venue |-> item.venue,
     doi |-> item.doi,
     url |-> IF item.doi # "" THEN [site |-> "doi.org", id |-> item.doi] ELSE NoUrl,
     excerpt |-> ExcerptOf(item), source |-> "CrossRef"]

PubmedResult(item) ==
    [type |-> "peer-reviewed", title |-> item.title, venue |-> item.venue,
     doi |-> item.doi,
     url |-> IF item.id # "" THEN [site |-> "europepmc.org", id |-> item.id] ELSE NoUrl,
     excerpt |-> ExcerptOf(item), source |-> "PubMed/Europe PMC"]

ArxivResult(item) ==
    [type |-> "preprint", title |-> item.title, venue |-> "arXiv",
     doi |-> "",
     url |-> IF item.id # "" THEN [site |-> "arxiv.org", id |-> item.id] ELSE NoUrl,
     excerpt |-> ExcerptOf(item), source |-> "arXiv"]

ResultOf(source, item) ==
    CASE source = "crossref" -> CrossrefResult(item)
      [] source = "pubmed" -> PubmedResult(item)
      [] source = "arxiv" -> ArxivResult(item)

\* the rows parameter each search sends: min(max_results, 20) or 25
CrossrefRowCap == 20
PubmedRowCap == 25
ArxivRowCap == 20

RowCap(source) ==
    CASE source = "crossref" -> CrossrefRowCap
      [] source = "pubmed" -> PubmedRowCap
      [] source = "arxiv" -> ArxivRowCap

\* -------------------------------------------------------------------- cache
CachePrefix(source) ==
    CASE source = "crossref" -> "crossref_search_v2"
      [] source = "pubmed" -> "pubmed_search_v2"
      [] source = "arxiv" -> "arxiv_search_v2"

\* get_cache_key(prefix, f"{query}_{max_results}"): the digest is modelled by
\* the text it is taken of
get_cache_key(prefix, query, max_results) == <<prefix, query, max_results>>

\* db.get(key): None when the key is absent
cache_get(cache, key) == IF key \in DOMAIN cache THEN cache[key] ELSE <<>>
HasEntry(cache, key) == key \in DOMAIN cache

cache_set(cache, key, value) ==
    [k \in DOMAIN cache \cup {key} |-> IF k = key THEN value ELSE cache[k]]

\* ----------------------------------------------------------- source searches
\* What can go wrong in one search: nothing, the request (connection error,
\* timeout, bad status, unparsable body), the cache read, or the cache write.
Faults == {"none", "network", "cache_get", "cache_set"}

\* variant: a failed request escapes the search instead of being caught
SearchSourceRaising(source, world, cache, query, max_results, fault) ==
    LET cache_key == get_cache_key(CachePrefix(source), query, max_results)
        cached == cache_get(cache, cache_key)
        items == Upstream(world, source, query, Min(max_results, RowCap(source)))
        results == [i \in 1..Len(items) |-> validate_metadata(ResultOf(source, items[i]))]
    IN IF fault = "cache_get"
       THEN [ret |-> <<>>, raised |-> TRUE, cache |-> cache,
             contacted |-> FALSE, hit |-> "cache_get",
             key |-> cache_key]
       ELSE IF cached # <<>>
       THEN [ret |-> cached, raised |-> FALSE, cache |-> cache,
             contacted |-> FALSE, hit |-> "none",
             key |-> cache_key]
       ELSE IF fault = "network"
       THEN [ret |-> <<>>, raised |-> TRUE, cache |-> cache,
             contacted |-> TRUE, hit |-> "network",
             key |-> cache_key]
       ELSE IF fault = "cache_set"
       THEN [ret |-> <<>>, raised |-> FALSE, cache |-> cache,
             contacted |-> TRUE, hit |-> "cache_set",
             key |-> cache_key]
       ELSE [ret |-> results, raised |-> FALSE,
             cache |-> cache_set(cache, cache_key, results),
             contacted |-> TRUE, hit |-> "none",
             key |-> cache_key]

\* variant: a failed request stores the empty list under the key
SearchSourceCachingFailure(source, world, cache, query, max_results, fault) ==
    LET cache_key == get_cache_key(CachePrefix(source), query, max_results)
        cached == cache_get(cache, cache_key)
        items == Upstream(world, source, query, Min(max_results, RowCap(source)))
        results == [i \in 1..Len(items) |-> validate_metadata(ResultOf(source, items[i]))]
    IN IF fault = "cache_get"
       THEN [ret |-> <<>>, raised |-> TRUE, cache |-> cache,
             contacted |-> FALSE, hit |-> "cache_get",
             key |-> cache_key]
       ELSE IF cached # <<>>
       THEN [ret |-> cached, raised |-> FALSE, cache |-> cache,
             contacted |-> FALSE, hit |-> "none",
             key |-> cache_key]
       ELSE IF fault = "network"
       THEN [ret |-> <<>>, raised |-> FALSE,
             cache |-> cache_set(cache, cache_key, <<>>),
             contacted |-> TRUE, hit |-> "network",
             key |-> cache_key]
       ELSE IF fault = "cache_set"
       THEN [ret |-> <<>>, raised |-> FALSE, cache |-> cache,
             contacted |-> TRUE, hit |-> "cache_set",
             key |-> cache_key]
       ELSE [ret |-> results, raised |-> FALSE,
             cache |-> cache_set(cache, cache_key, results),
             contacted |-> TRUE, hit |-> "none",
             key |-> cache_key]

\* One call of search_crossref / search_pubmed / search_arxiv.
\*   ret       the list returned (<<>> when the call raises)
\*   raised    the call raised past its boundary
\*   cache     the cache afterwards
\*   contacted the upstream catalog was sent a request
\*   hit       a fault that the call actually ran into
\*   key       the cache key of the call
SearchSource(source, world, cache, query, max_results, fault) ==
    LET cache_key == get_cache_key(CachePrefix(source), query, max_results)
        cached == cache_get(cache, cache_key)
        items == Upstream(world, source, query, Min(max_results, RowCap(source)))
        results == [i \in 1..Len(items) |-> validate_metadata(ResultOf(source, items[i]))]
    IN IF fault = "cache_get"
       THEN [ret |-> <<>>, raised |-> TRUE, cache |-> cache,
             contacted |-> FALSE, hit |-> "cache_get",
             key |-> cache_key]
       ELSE IF cached # <<>>
       THEN [ret |-> cached, raised |-> FALSE, cache |-> cache,
             contacted |-> FALSE, hit |-> "none",
             key |-> cache_key]
       ELSE IF fault = "network"
       THEN [ret |-> <<>>, raised |-> FALSE, cache |-> cache,
             contacted |-> TRUE, hit |-> "network",
             key |-> cache_key]
       ELSE IF fault = "cache_set"
       THEN [ret |-> <<>>, raised |-> FALSE, cache |-> cache,
             contacted |-> TRUE, hit |-> "cache_set",
             key |-> cache_key]
       ELSE [ret |-> results, raised |-> FALSE,
             cache |-> cache_set(cache, cache_key, results),
             contacted |-> TRUE, hit |-> "none",
             key |-> cache_key]

search_crossref(world, cache, query, max_results, fault) ==
    SearchSource("crossref", world, cache, query, max_results, fault)

search_pubmed(world, cache, query, max_results, fault) ==
    SearchSource("pubmed", world, cache, query, max_results, fault)

search_arxiv(world, cache, query, max_results, fault) ==
    SearchSource("arxiv", world, cache, query, max_results, fault)

Search(source, world, cache, query, max_results, fault) ==
    CASE source = "crossref" -> search_crossref(world, cache, query, max_results, fault)
      [] source = "pubmed" -> search_pubmed(world, cache, query, max_results, fault)
      [] source = "arxiv" -> search_arxiv(world, cache, query, max_results, fault)

RECURSIVE DedupIgnoringLinks(_, _, _, _)
\* variant: the link of a record is not compared
DedupIgnoringLinks(evidence_list, seen_dois, seen_titles, seen_urls) ==
    IF evidence_list = <<>> THEN <<>>
    ELSE LET evidence == Head(evidence_list)
             doi == Lower(evidence.doi)
             title == Lower(evidence.title)
             is_duplicate ==
                 IF doi # "" /\ doi \in seen_dois THEN TRUE
                 ELSE title # "" /\ title \in seen_titles
         IN IF is_duplicate
            THEN DedupIgnoringLinks(Tail(evidence_list), seen_dois, seen_titles, seen_urls)
            ELSE <<evidence>>
                 \o DedupIgnoringLinks(Tail(evidence_list),
                        IF doi # "" THEN seen_dois \cup {doi} ELSE seen_dois,
                        IF title # "" THEN seen_titles \cup {title} ELSE seen_titles,
                        seen_urls)

\* ------------------------------------------------------------- deduplication
RECURSIVE DedupComprehensive(_, _, _, _)
\* the loop of _deduplicate_evidence_comprehensive with its three seen-sets
DedupComprehensive(evidence_list, seen_dois, seen_titles, seen_urls) ==
    IF evidence_list = <<>> THEN <<>>
    ELSE LET evidence == Head(evidence_list)
             doi == Lower(evidence.doi)
             title == Lower(evidence.title)
             url == [evidence.url EXCEPT !.id = Lower(@)]
             is_duplicate ==
                 IF doi # "" /\ doi \in seen_dois THEN TRUE
                 ELSE IF title # "" /\ title \in seen_titles THEN TRUE
                 ELSE url # NoUrl /\ url \in seen_urls
         IN IF is_duplicate
            THEN DedupComprehensive(Tail(evidence_list), seen_dois, seen_titles, seen_urls)
            ELSE <<evidence>>
                 \o DedupComprehensive(Tail(evidence_list),
                        IF doi # "" THEN seen_dois \cup {doi} ELSE seen_dois,
                        IF title # "" THEN seen_titles \cup {title} ELSE seen_titles,
                        IF url # NoUrl THEN seen_urls \cup {url} ELSE seen_urls)

_deduplicate_evidence_comprehensive(evidence_list) ==
    DedupComprehensive(evidence_list, {}, {}, {})

RECURSIVE DedupForgetting(_, _)
\* variant: a title is forgotten again once a duplicate of it was dropped
DedupForgetting(evidence_list, seen_titles) ==
    IF evidence_list = <<>> THEN <<>>
    ELSE LET evidence == Head(evidence_list)
             title == Lower(evidence.title)
         IN IF title # "" /\ title \notin seen_titles
            THEN <<evidence>> \o DedupForgetting(Tail(evidence_list), seen_titles \cup {title})
            ELSE DedupForgetting(Tail(evidence_list), seen_titles \ {title})

RECURSIVE DedupByTitle(_, _)
DedupByTitle(evidence_list, seen_titles) ==
    IF evidence_list = <<>> THEN <<>>
    ELSE LET evidence == Head(evidence_list)
             title == Lower(evidence.title)
         IN IF title # "" /\ title \notin seen_titles
            THEN <<evidence>> \o DedupByTitle(Tail(evidence_list), seen_titles \cup {title})
            ELSE DedupByTitle(Tail(evidence_list), seen_titles)

_deduplicate_evidence(evidence_list) == DedupByTitle(evidence_list, {})

\* ----------------------------------------------------------------- reranker
\* set(text.lower().split()) of a title or a venue of the model
WordsOfText(text) ==
    CASE text = "Memory fades with age" -> {"memory", "fades", "with", "age"}
      [] text = "Forgetting curves" -> {"forgetting", "curves"}
      [] text = "No evidence memory fades" -> {"no", "evidence", "memory", "fades"}
      [] text = "Memory decay" -> {"memory", "decay"}
      [] text = "Models of memory" -> {"models", "of", "memory"}
      [] text = "Fading signals" -> {"fading", "signals"}
      [] text = "Exercise improves memory" -> {"exercise", "improves", "memory"}
      [] text = "No title available" -> {"no", "title", "available"}
      [] text = "Nature" -> {"nature"}
      [] text = "The Lancet" -> {"the", "lancet"}
      [] text = "Neuroscience Letters" -> {"neuroscience", "letters"}
      [] text = "arXiv" -> {"arxiv"}
      [] text = "ICML Proceedings" -> {"icml", "proceedings"}
      [] text = "Unknown venue" -> {"unknown", "venue"}
      [] OTHER -> {}

mechanism_keywords ==
    {"mechanism", "pathway", "process", "function", "effect", "response",
     "regulation", "activation", "inhibition", "modulation", "interaction"}

\* the words of f"{title} {excerpt} {venue}"
EvidenceWords(evidence) ==
    WordsOfText(evidence.title) \cup evidence.excerpt.words \cup WordsOfText(evidence.venue)

ClaimWords(claim) == {Lower(claim[i]) : i \in 1..Len(claim)}

\* a similarity is the fraction num/den
calculate_similarity(claim, evidence) ==
    LET claim_words == ClaimWords(claim)
        evidence_words == EvidenceWords(evidence)
    IN IF claim_words = {} \/ evidence_words = {} THEN [num |-> 0, den |-> 1]
       ELSE [num |-> Cardinality(claim_words \cap evidence_words),
             den |-> Cardinality(claim_words \cup evidence_words)]

_check_partial_support(claim, evidence) ==
    LET concept_overlap == Cardinality(ClaimWords(claim) \cap EvidenceWords(evidence))
        mechanism_found == EvidenceWords(evidence) \cap mechanism_keywords # {}
    IN concept_overlap >= 2 \/ mechanism_found

\* the relevance threshold 0.25 and the boost 0.2, as fractions
ThresholdNum == 1
ThresholdDen == 4
BoostNum == 1
BoostDen == 5
MaxTopEvidence == 5

\* a >= b for fractions with positive denominators
FracGeq(a, b) == a.num * b.den >= b.num * a.den

\* min(1.0, similarity + 0.2)
Boost(similarity) ==
    LET num == similarity.num * BoostDen + BoostNum * similarity.den
        den == similarity.den * BoostDen
    IN IF num >= den THEN [num |-> 1, den |-> 1] ELSE [num |-> num, den |-> den]

ScoreEvidence(claim, evidence) ==
    LET partial_support == _check_partial_support(claim, evidence)
        plain == calculate_similarity(claim, evidence)
        similarity == IF partial_support THEN Boost(plain) ELSE plain
    IN [type |-> evidence.type, title |-> evidence.title, venue |-> evidence.venue,
        doi |-> evidence.doi, url |-> evidence.url, excerpt |-> evidence.excerpt,
        source |-> evidence.source,
        relevance_score |-> similarity,
        is_relevant |-> FracGeq(similarity, [num |-> ThresholdNum, den |-> ThresholdDen])
                        \/ partial_support,
        partial_support |-> partial_support]

RECURSIVE InsertDescending(_, _)
\* place e after every element whose relevance is not lower (a stable sort)
InsertDescending(sorted, e) ==
    IF sorted = <<>> THEN <<e>>
    ELSE IF FracGeq(Head(sorted).relevance_score, e.relevance_score)
    THEN <<Head(sorted)>> \o InsertDescending(Tail(sorted), e)
    ELSE <<e>> \o sorted

RECURSIVE SortDescending(_, _)
SortDescending(rest, sorted) ==
    IF rest = <<>> THEN sorted
    ELSE SortDescending(Tail(rest), InsertDescending(sorted, Head(rest)))

\* variant: the relevant records are returned without the cut to five
RerankUncut(claim, evidence_list) ==
    LET scored_evidence ==
            [i \in 1..Len(evidence_list) |-> ScoreEvidence(claim, evidence_list[i])]
        sorted == SortDescending(scored_evidence, <<>>)
    IN SelectSeq(sorted, LAMBDA e : e.is_relevant)

rerank_evidence(claim, evidence_list) ==
    LET scored_evidence ==
            [i \in 1..Len(evidence_list) |-> ScoreEvidence(claim, evidence_list[i])]
        sorted == SortDescending(scored_evidence, <<>>)
        relevant_evidence == SelectSeq(sorted, LAMBDA e : e.is_relevant)
    IN Take(relevant_evidence, MaxTopEvidence)

\* ------------------------------------------------------- replication status
\* a replication keyword occurs in the title or the venue
HasReplicationKeyword(evidence) ==
    {"replication", "reproducibility"} \cap
        (WordsOfText(evidence.title) \cup WordsOfText(evidence.venue)) # {}

check_replication_status(evidence_list) ==
    LET replication_count ==
            Cardinality({i \in 1..Len(evidence_list) :
                            HasReplicationKeyword(evidence_list[i])})
    IN IF evidence_list = <<>> THEN "none"
       ELSE IF replication_count = 0 THEN "original_only"
       ELSE IF replication_count = 1 THEN "partial"
       ELSE "replicated"

\* _normalize_claim: a leading question word dropped, lower case, no punctuation
QuestionWords ==
    {"does", "do", "is", "are", "can", "will", "should", "how", "what", "why",
     "when", "where"}

_normalize_claim(claim) ==
    LET lowered == LowerAll(claim)
        rest == IF lowered # <<>> /\ Head(lowered) \in QuestionWords /\ Len(lowered) > 1
                THEN Tail(lowered) ELSE lowered
    IN [i \in 1..Len(rest) |-> StripPunct(rest[i])]

contradiction_markers == <<"not supported", "debunked", "disproven", "no evidence">>
ContradictionRows == 2
EvidenceRows == 5
ExactRows == 5
FuzzyRows == 3

\* ================================================================= pipeline
\* most faults the environment injects into the source calls of one run
MaxFaults == 1

VARIABLES
    claim_data,   \* the argument of analyze_claim
    world,        \* what the three upstream catalogs hold
    seed,         \* the process's string-hash seed
    cache,        \* the shelve file: cache key -> stored list
    pc,           \* where analyze_claim stands
    loc,          \* the local variables of analyze_claim and of its callees
    result,       \* <<the dictionary analyze_claim returned>>, <<>> until it returns
    faults,       \* faults the environment may still inject
    log,          \* history: which components ran, and the last source call
    h             \* the inputs and outputs of the scorer and classifier harnesses

vars == <<claim_data, world, seed, cache, pc, loc, result, faults, log, h>>

\* the claims analyze_claim is run on
OriginalClaims ==
    { <<"perpetual", "motion", "machine">>,
      <<"Telepathic", "communication", "works">>,
      <<"memory", "fades">>,
      <<"Memory", "fades">>,
      <<"exercise", "improves", "memory">>,
      <<"QuantumFlux-Neuro", "works">>,
      <<"Zorb", "restores", "Memory">>,
      <<"gravito-electroencephalography", "works">>,
      <<"Instantaneous", "knowledge", "transfer", "across", "any", "distance">> }

EmptyCache == [key \in {} |-> <<>>]

NoCall == [source |-> "", fault |-> "none", raised |-> FALSE, contacted |-> FALSE,
           ret |-> <<>>, fetched |-> <<>>, phase |-> "", key |-> <<>>]

InitLoc ==
    [plausibility_result |-> check_claim_plausibility(<<>>),
     terms |-> <<>>, ti |-> 0, k |-> 0,
     exact_hits |-> 0, fuzzy_hits |-> 0, fabricated_terms |-> <<>>,
     queries |-> <<>>, all_evidence |-> <<>>, evidence_list |-> <<>>,
     contradictions |-> <<>>]

InitLog ==
    [domain_engine |-> FALSE, detector |-> FALSE, evidence_search |-> FALSE,
     contradiction_search |-> FALSE, scorer |-> FALSE, source_calls |-> 0,
     fanout |-> {}, contradiction_calls |-> 0, failures |-> {}, failed_keys |-> {},
     last |-> NoCall]

IdleHarness == [mode |-> "idle"]

Init ==
    /\ \E original \in OriginalClaims :
          claim_data = [original_claim |-> original,
                        normalized_claim |-> _normalize_claim(original)]
    /\ world \in Worlds
    /\ seed \in 1..NumSeeds
    /\ cache = EmptyCache
    /\ pc = "start"
    /\ loc = InitLoc
    /\ result = <<>>
    /\ faults = MaxFaults
    /\ log = InitLog
    /\ h = IdleHarness

\* ------------------------------------------------------------ result records
SchemaKeys ==
    {"original_claim", "normalized_claim", "classification", "confidence_score",
     "confidence_color", "drivers", "top_evidence", "fabricated_terms",
     "replication_status", "contradictions", "explanation_plain",
     "suggested_corrections", "search_actions"}

\* variant: the domain rules never end the analysis early
NoDomainShortCircuit(plausibility_result) == FALSE

\* the condition of the first short-circuit
ImplausibleShortCircuit(plausibility_result) ==
    ~plausibility_result.overall_plausible /\ plausibility_result.critical_violations

\* variant: fabricated terms never end the analysis early
NoFabricatedShortCircuit(fabricated_term_names) == FALSE

\* the condition of the second short-circuit
FabricatedShortCircuit(fabricated_term_names) == fabricated_term_names # <<>>

\* variant: the implausible result leaves the violations out
ImplausibleResultBare(plausibility_result) ==
    [path |-> "implausible",
     classification |-> "Physically Implausible",
     confidence_score |-> 0,
     confidence_color |-> "red",
     drivers |-> << <<"Claim violates established physical laws or domain-specific rules">> >>,
     top_evidence |-> <<>>,
     fabricated_terms |-> <<>>,
     replication_status |-> "none",
     contradictions |-> <<>>,
     domain_violations |-> <<>>,
     keys |-> SchemaKeys \cup {"domain_violations"}]

ImplausibleResult(plausibility_result) ==
    [path |-> "implausible",
     classification |-> "Physically Implausible",
     confidence_score |-> 0,
     confidence_color |-> "red",
     drivers |-> << <<"Claim violates established physical laws or domain-specific rules">> >>,
     top_evidence |-> <<>>,
     fabricated_terms |-> <<>>,
     replication_status |-> "none",
     contradictions |-> <<>>,
     domain_violations |-> <<plausibility_result.domain_results>>,
     keys |-> SchemaKeys \cup {"domain_violations"}]

TermNames(fabricated_terms) ==
    [i \in 1..Len(fabricated_terms) |-> fabricated_terms[i].term]

FabricatedResult(fabricated_terms) ==
    [path |-> "fabricated",
     classification |-> "Fabricated",
     confidence_score |-> 0,
     confidence_color |-> "red",
     drivers |-> << <<"Fabricated terms detected", TermNames(fabricated_terms)>> >>,
     top_evidence |-> <<>>,
     fabricated_terms |-> TermNames(fabricated_terms),
     replication_status |-> "none",
     contradictions |-> <<>>,
     domain_violations |-> <<>>,
     keys |-> SchemaKeys \cup {"fabricated_term_evidence"}]

\* steps 5 to 10 of analyze_claim and the dictionary it returns
FullResult(plausibility_result, fabricated_term_names, evidence_list, contradictions) ==
    LET scored == calculate_confidence_score(evidence_list, contradictions)
    IN [path |-> "full",
        classification |-> get_classification(scored.score, fabricated_term_names,
                                              plausibility_result, evidence_list),
        confidence_score |-> scored.score,
        confidence_color |-> get_confidence_color(scored.score),
        drivers |-> scored.drivers,
        top_evidence |-> Take(evidence_list, MaxTopEvidence),
        fabricated_terms |-> fabricated_term_names,
        replication_status |-> check_replication_status(evidence_list),
        contradictions |-> contradictions,
        domain_violations |-> IF ~plausibility_result.overall_plausible
                              THEN <<plausibility_result.domain_results>> ELSE <<>>,
        keys |-> SchemaKeys \cup {"domain_violations", "partial_support_count"}]

\* ------------------------------------------------------------------ actions
\* the bookkeeping of one source call
Logged(lg, phase, source, r, fetched) ==
    [lg EXCEPT !.source_calls = @ + 1,
               !.contradiction_calls = IF phase = "contra" THEN @ + 1 ELSE @,
               !.failures = IF r.hit = "none" THEN @
                            ELSE @ \cup {[phase |-> phase, fault |-> r.hit]},
               !.failed_keys = IF r.hit = "network" THEN @ \cup {r.key} ELSE @,
               !.last = [source |-> source, fault |-> r.hit, raised |-> r.raised,
                         contacted |-> r.contacted, ret |-> r.ret,
                         fetched |-> fetched, phase |-> phase, key |-> r.key]]

\* what the upstream holds for the call, as the search would return it
Fetched(source, query, max_results) ==
    SearchSource(source, world, EmptyCache, query, max_results, "none").ret

\* a fault is injected only where the call runs into it, and within the budget
FaultAllowed(fault, r) ==
    /\ r.hit = fault
    /\ fault # "none" => faults > 0

Spend(fault) == IF fault = "none" THEN faults ELSE faults - 1

\* search_evidence is entered: the queries are generated
StartEvidence(l, lg) ==
    [pc |-> "evidence",
     loc |-> [l EXCEPT !.k = 1, !.all_evidence = <<>>,
                       !.queries = generate_concept_queries(claim_data.normalized_claim, seed)],
     result |-> <<>>,
     log |-> [lg EXCEPT !.evidence_search = TRUE]]

\* variant: the evidence search starts whatever the detector found
AlwaysSearchEvidence(l, lg) == StartEvidence(l, lg)

\* detect_fabricated_terms has returned: step 2 of analyze_claim
AfterDetection(l, lg) ==
    IF FabricatedShortCircuit(TermNames(l.fabricated_terms))
    THEN [pc |-> "done", loc |-> l,
          result |-> <<FabricatedResult(l.fabricated_terms)>>, log |-> lg]
    ELSE StartEvidence(l, lg)

\* variant: every finding is reported with confidence "high"
AfterTermAlwaysHigh(l, lg) ==
    LET term == l.terms[l.ti]
        found == IF l.exact_hits = 0 /\ l.fuzzy_hits = 0
                 THEN << [term |-> term,
                          total_exact_hits |-> l.exact_hits,
                          total_fuzzy_hits |-> l.fuzzy_hits,
                          confidence |-> "high"] >>
                 ELSE <<>>
        l2 == [l EXCEPT !.fabricated_terms = @ \o found]
    IN IF l.ti < Len(l.terms)
       THEN [pc |-> "exact",
             loc |-> [l2 EXCEPT !.ti = @ + 1, !.k = 1, !.exact_hits = 0, !.fuzzy_hits = 0],
             result |-> <<>>, log |-> lg]
       ELSE AfterDetection(l2, lg)

\* search_term_existence has returned for the current term
AfterTerm(l, lg) ==
    LET term == l.terms[l.ti]
        found == IF l.exact_hits = 0 /\ l.fuzzy_hits = 0
                 THEN << [term |-> term,
                          total_exact_hits |-> l.exact_hits,
                          total_fuzzy_hits |-> l.fuzzy_hits,
                          confidence |-> IF WordLen(term) > 5 THEN "high" ELSE "medium"] >>
                 ELSE <<>>
        l2 == [l EXCEPT !.fabricated_terms = @ \o found]
    IN IF l.ti < Len(l.terms)
       THEN [pc |-> "exact",
             loc |-> [l2 EXCEPT !.ti = @ + 1, !.k = 1, !.exact_hits = 0, !.fuzzy_hits = 0],
             result |-> <<>>, log |-> lg]
       ELSE AfterDetection(l2, lg)

\* analyze_claim up to its first source call: the domain rules, the first
\* short-circuit, and the candidate terms of the fabrication detector
AnalyzeClaim ==
    /\ pc = "start"
    /\ LET plausibility_result == check_claim_plausibility(claim_data.original_claim)
           lg == [log EXCEPT !.domain_engine = TRUE]
           terms == technical_terms(claim_data.original_claim)
           l == [loc EXCEPT !.plausibility_result = plausibility_result, !.terms = terms]
           next == IF ImplausibleShortCircuit(plausibility_result)
                   THEN [pc |-> "done", loc |-> [loc EXCEPT !.plausibility_result = plausibility_result],
                         result |-> <<ImplausibleResult(plausibility_result)>>, log |-> lg]
                   ELSE IF terms = <<>>
                   THEN AfterDetection(l, [lg EXCEPT !.detector = TRUE])
                   ELSE [pc |-> "exact",
                         loc |-> [l EXCEPT !.ti = 1, !.k = 1, !.exact_hits = 0, !.fuzzy_hits = 0],
                         result |-> <<>>, log |-> [lg EXCEPT !.detector = TRUE]]
       IN /\ pc' = next.pc
          /\ loc' = next.loc
          /\ result' = next.result
          /\ log' = next.log
    /\ UNCHANGED <<claim_data, world, seed, cache, faults, h>>

\* one exact-phrase search of search_term_existence
ExactSearch ==
    /\ pc = "exact"
    /\ \E fault \in Faults :
         LET source == Sources[loc.k]
             query == Phrase(<<normalize_term(loc.terms[loc.ti])>>)
             r == Search(source, world, cache, query, ExactRows, fault)
             lg == Logged(log, "exact", source, r, Fetched(source, query, ExactRows))
             l == [loc EXCEPT !.exact_hits = @ + Len(r.ret), !.k = @ + 1]
             next == IF r.raised
                     THEN [pc |-> "raised", loc |-> loc, result |-> <<>>, log |-> lg]
                     ELSE IF loc.k < Len(Sources)
                     THEN [pc |-> "exact", loc |-> l, result |-> <<>>, log |-> lg]
                     ELSE IF l.exact_hits = 0
                     THEN [pc |-> "fuzzy", loc |-> [l EXCEPT !.k = 1, !.fuzzy_hits = 0],
                           result |-> <<>>, log |-> lg]
                     ELSE AfterTerm(l, lg)
         IN /\ FaultAllowed(fault, r)
            /\ faults' = Spend(fault)
            /\ cache' = r.cache
            /\ pc' = next.pc
            /\ loc' = next.loc
            /\ result' = next.result
            /\ log' = next.log
    /\ UNCHANGED <<claim_data, world, seed, h>>

\* one search of the fuzzy loop of search_term_existence
FuzzySearch ==
    /\ pc = "fuzzy"
    /\ \E fault \in Faults :
         LET variations ==
                 Take(fuzzy_search(normalize_term(loc.terms[loc.ti])), FuzzyTried)
             calls == Len(variations) * Len(Sources)
             variation == variations[((loc.k - 1) \div Len(Sources)) + 1]
             source == Sources[((loc.k - 1) % Len(Sources)) + 1]
             query == Phrase(<<variation>>)
             r == Search(source, world, cache, query, FuzzyRows, fault)
             lg == Logged(log, "fuzzy", source, r, Fetched(source, query, FuzzyRows))
             l == [loc EXCEPT !.fuzzy_hits = @ + Len(r.ret), !.k = @ + 1]
             next == IF r.raised
                     THEN [pc |-> "raised", loc |-> loc, result |-> <<>>, log |-> lg]
                     ELSE IF loc.k < calls
                     THEN [pc |-> "fuzzy", loc |-> l, result |-> <<>>, log |-> lg]
                     ELSE AfterTerm(l, lg)
         IN /\ FaultAllowed(fault, r)
            /\ faults' = Spend(fault)
            /\ cache' = r.cache
            /\ pc' = next.pc
            /\ loc' = next.loc
            /\ result' = next.result
            /\ log' = next.log
    /\ UNCHANGED <<claim_data, world, seed, h>>

\* search_evidence_comprehensive after its loop, and search_evidence after it
FinishEvidence(l, lg) ==
    LET unique_evidence == _deduplicate_evidence_comprehensive(l.all_evidence)
        reranked_evidence == rerank_evidence(claim_data.normalized_claim, unique_evidence)
    IN [pc |-> "contra",
        loc |-> [l EXCEPT !.evidence_list = _deduplicate_evidence(reranked_evidence),
                          !.k = 1, !.contradictions = <<>>],
        result |-> <<>>,
        log |-> [lg EXCEPT !.contradiction_search = TRUE]]

\* one source search of the fan-out of search_evidence_comprehensive
EvidenceSearch ==
    /\ pc = "evidence"
    /\ \E fault \in Faults :
         LET calls == Len(loc.queries) * Len(Sources)
             qi == ((loc.k - 1) \div Len(Sources)) + 1
             source == Sources[((loc.k - 1) % Len(Sources)) + 1]
             query == loc.queries[qi]
             r == Search(source, world, cache, query, EvidenceRows, fault)
             lg0 == Logged(log, "evidence", source, r, Fetched(source, query, EvidenceRows))
             lg == [lg0 EXCEPT !.fanout = @ \cup {<<qi, source>>}]
             l == [loc EXCEPT !.all_evidence = @ \o r.ret, !.k = @ + 1]
             next == IF r.raised
                     THEN [pc |-> "raised", loc |-> loc, result |-> <<>>, log |-> lg]
                     ELSE IF loc.k < calls
                     THEN [pc |-> "evidence", loc |-> l, result |-> <<>>, log |-> lg]
                     ELSE FinishEvidence(l, lg)
         IN /\ FaultAllowed(fault, r)
            /\ faults' = Spend(fault)
            /\ cache' = r.cache
            /\ pc' = next.pc
            /\ loc' = next.loc
            /\ result' = next.result
            /\ log' = next.log
    /\ UNCHANGED <<claim_data, world, seed, h>>

\* one search of search_contradictions; after the last one, steps 5 to 10
ContradictionSearch ==
    /\ pc = "contra"
    /\ \E fault \in Faults :
         LET query == ContraQuery(claim_data.normalized_claim, contradiction_markers[loc.k])
             r == search_crossref(world, cache, query, ContradictionRows, fault)
             lg == Logged(log, "contra", "crossref", r,
                          Fetched("crossref", query, ContradictionRows))
             l == [loc EXCEPT !.contradictions = @ \o r.ret, !.k = @ + 1]
             next == IF r.raised
                     THEN [pc |-> "raised", loc |-> loc, result |-> <<>>, log |-> lg]
                     ELSE IF loc.k < Len(contradiction_markers)
                     THEN [pc |-> "contra", loc |-> l, result |-> <<>>, log |-> lg]
                     ELSE [pc |-> "done", loc |-> l,
                           result |-> <<FullResult(l.plausibility_result,
                                                   TermNames(l.fabricated_terms),
                                                   l.evidence_list, l.contradictions)>>,
                           log |-> [lg EXCEPT !.scorer = TRUE]]
         IN /\ FaultAllowed(fault, r)
            /\ faults' = Spend(fault)
            /\ cache' = r.cache
            /\ pc' = next.pc
            /\ loc' = next.loc
            /\ result' = next.result
            /\ log' = next.log
    /\ UNCHANGED <<claim_data, world, seed, h>>

Next ==
    \/ AnalyzeClaim
    \/ ExactSearch
    \/ FuzzySearch
    \/ EvidenceSearch
    \/ ContradictionSearch

Spec == Init /\ [][Next]_vars

\* ========================================================= scorer harness
\* calculate_confidence_score called directly, as the unit tests call it, on
\* evidence lists and contradiction lists of every shape up to the bounds.
HarnessEvidence ==
    { [type |-> "peer-reviewed", venue |-> "Nature", doi |-> "10.1038/test123"],
      [type |-> "peer-reviewed", venue |-> "Unknown venue", doi |-> "10.1000/u1"],
      [type |-> "preprint", venue |-> "arXiv", doi |-> ""],
      [type |-> "news", venue |-> "Nature", doi |-> ""] }

ContradictionRecord == [source |-> "test", detail |-> "contradiction"]

ContradictionLists ==
    {[i \in 1..n |-> ContradictionRecord] : n \in 0..MaxContradictions}

IdlePipeline ==
    /\ claim_data = [original_claim |-> <<>>, normalized_claim |-> <<>>]
    /\ world = "empty"
    /\ seed = 1
    /\ cache = EmptyCache
    /\ pc = "idle"
    /\ loc = InitLoc
    /\ result = <<>>
    /\ faults = 0
    /\ log = InitLog

InitScore ==
    /\ IdlePipeline
    /\ \E evidence_list \in SeqsUpTo(HarnessEvidence, MaxEvidence),
          contradictions \in ContradictionLists :
          h = [mode |-> "score", at |-> "input",
               evidence_list |-> evidence_list, contradictions |-> contradictions,
               score |-> 0, drivers |-> <<>>, previous |-> 0]

\* score, drivers = calculate_confidence_score(evidence_list, contradictions)
Score ==
    /\ h.mode = "score" /\ h.at = "input"
    /\ LET scored == calculate_confidence_score(h.evidence_list, h.contradictions)
       IN h' = [h EXCEPT !.at = "scored", !.score = scored.score,
                         !.drivers = scored.drivers]
    /\ UNCHANGED <<claim_data, world, seed, cache, pc, loc, result, faults, log>>

\* the same evidence scored again with one more contradiction
ScoreWithOneMore ==
    /\ h.mode = "score" /\ h.at = "scored"
    /\ LET contradictions == Append(h.contradictions, ContradictionRecord)
           scored == calculate_confidence_score(h.evidence_list, contradictions)
       IN h' = [h EXCEPT !.at = "rescored", !.contradictions = contradictions,
                         !.previous = h.score, !.score = scored.score,
                         !.drivers = scored.drivers]
    /\ UNCHANGED <<claim_data, world, seed, cache, pc, loc, result, faults, log>>

NextScore == Score \/ ScoreWithOneMore

SpecScore == InitScore /\ [][NextScore]_vars

\* ====================================================== classifier harness
\* get_classification and get_confidence_color called directly on every score
\* of 0..100, with and without fabricated terms, on the plausibility result of
\* a claim, and on short evidence lists.
ClassifyEvidence ==
    { [type |-> "peer-reviewed", venue |-> "Nature", doi |-> "10.1038/test123"],
      [type |-> "preprint", venue |-> "arXiv", doi |-> ""] }

ClassifyClaims ==
    { <<"memory", "fades">>,
      <<"perpetual", "motion", "machine">>,
      <<"Telepathic", "communication", "works">> }

InitClassify ==
    /\ IdlePipeline
    /\ \E score \in 0..100,
          fabricated_terms \in {<<>>, <<"QuantumFlux-Neuro">>},
          claim \in ClassifyClaims,
          evidence_list \in SeqsUpTo(ClassifyEvidence, MaxClassifyEvidence) :
          h = [mode |-> "classify", at |-> "input", score |-> score,
               fabricated_terms |-> fabricated_terms,
               plausibility_result |-> check_claim_plausibility(claim),
               evidence_list |-> evidence_list,
               classification |-> "", color |-> ""]

Classify ==
    /\ h.mode = "classify" /\ h.at = "input"
    /\ h' = [h EXCEPT !.at = "classified",
                      !.classification =
                          get_classification(h.score, h.fabricated_terms,
                                             h.plausibility_result, h.evidence_list)]
    /\ UNCHANGED <<claim_data, world, seed, cache, pc, loc, result, faults, log>>

Color ==
    /\ h.mode = "classify" /\ h.at = "classified"
    /\ h' = [h EXCEPT !.at = "colored", !.color = get_confidence_color(h.score)]
    /\ UNCHANGED <<claim_data, world, seed, cache, pc, loc, result, faults, log>>

NextClassify == Classify \/ Color

SpecClassify == InitClassify /\ [][NextClassify]_vars

\* the pipeline and both harnesses
InitAll == Init \/ InitScore \/ InitClassify

NextAll == Next \/ NextScore \/ NextClassify

SpecAll == InitAll /\ [][NextAll]_vars

\* =================================================================== claims
Returned == result # <<>>
Res == result[1]

ScoreBased == {"Fully Supported", "Partially Supported", "Unsupported"}

\* every (query, source) pair of the fan-out
AllPairs == {<<qi, source>> : qi \in 1..Len(loc.queries), source \in SourceSet}

\* no source finds the term, neither exactly nor under the fuzzy variations tried
ZeroHits(term) ==
    /\ \A source \in SourceSet :
          Fetched(source, Phrase(<<normalize_term(term)>>), ExactRows) = <<>>
    /\ \A source \in SourceSet :
          \A i \in 1..Min(FuzzyTried, Len(fuzzy_search(normalize_term(term)))) :
              Fetched(source, Phrase(<<fuzzy_search(normalize_term(term))[i]>>),
                      FuzzyRows) = <<>>

\* C1: the score calculate_confidence_score returns is an integer of 0..100
\* for every evidence list and every contradiction list, and so is the
\* confidence_score of every result analyze_claim returns, on each path.
C1_ScoreInRange ==
    /\ (h.mode = "score" /\ h.at # "input") => h.score \in 0..100
    /\ Returned => Res.confidence_score \in 0..100

\* the scorer was called on evidence whose raw score lies above 100
C1_Witness ==
    /\ h.mode = "score" /\ h.at = "scored"
    /\ WeightedSupport(h.evidence_list) - WeightedContradiction(h.contradictions) > 100
    /\ h.score = 100

\* C2: a result whose fabricated_terms is non-empty is classified
\* "Fabricated" with confidence_score 0, whatever the sources hold for the claim.
C2_FabricatedForcesZero ==
    (Returned /\ Res.fabricated_terms # <<>>)
        => (Res.classification = "Fabricated" /\ Res.confidence_score = 0)

\* a fabricated result for a claim the catalog does hold evidence for
C2_Witness ==
    /\ Returned /\ Res.fabricated_terms # <<>>
    /\ Fetched("crossref", Phrase(claim_data.normalized_claim), EvidenceRows) # <<>>

\* C3: when the rule engine reports a critical violation the result is
\* "Physically Implausible" with score 0, colour red and the violations
\* attached; and no "Physically Implausible" result has a non-zero score.
C3_ImplausibleIsZero ==
    Returned =>
        /\ check_claim_plausibility(claim_data.original_claim).critical_violations
              => /\ Res.classification = "Physically Implausible"
                 /\ Res.confidence_score = 0
                 /\ Res.confidence_color = "red"
                 /\ Res.domain_violations # <<>>
                 /\ \E d \in Domains : Res.domain_violations[1][d].violations # <<>>
        /\ Res.classification = "Physically Implausible" => Res.confidence_score = 0

C3_Witness ==
    /\ Returned
    /\ check_claim_plausibility(claim_data.original_claim).critical_violations
    /\ Res.classification = "Physically Implausible"

\* C4: the domain rules are checked first and the two short-circuits exclude
\* each other: a claim that matches a critical rule and also holds terms no
\* source knows is returned as "Physically Implausible" with no fabricated
\* terms, the fabrication detector is never invoked for it, and no result is
\* both "Fabricated" and in critical violation.
C4_DomainRulesFirst ==
    /\ (pc # "start"
        /\ check_claim_plausibility(claim_data.original_claim).critical_violations)
          => /\ ~log.detector
             /\ Returned
             /\ Res.classification = "Physically Implausible"
             /\ Res.fabricated_terms = <<>>
    /\ Returned
          => ~(/\ Res.classification = "Fabricated"
               /\ check_claim_plausibility(claim_data.original_claim).critical_violations)

\* a returned claim in critical violation whose candidate term no source knows
C4_Witness ==
    /\ Returned
    /\ check_claim_plausibility(claim_data.original_claim).critical_violations
    /\ technical_terms(claim_data.original_claim) # <<>>
    /\ \A i \in 1..Len(technical_terms(claim_data.original_claim)) :
          ZeroHits(technical_terms(claim_data.original_claim)[i])

\* C5: on both short-circuit paths neither the evidence search nor the
\* contradiction search nor the scorer is invoked, and on the implausible
\* path no source is queried at all; a score-based classification is
\* returned only after every call of the evidence search and of the
\* contradiction search was made.
C5_ShortCircuitSkipsSearch ==
    Returned =>
        /\ (\/ check_claim_plausibility(claim_data.original_claim).critical_violations
            \/ Res.fabricated_terms # <<>>)
              => /\ ~log.evidence_search
                 /\ ~log.contradiction_search
                 /\ ~log.scorer
        /\ check_claim_plausibility(claim_data.original_claim).critical_violations
              => log.source_calls = 0
        /\ Res.classification \in ScoreBased
              => /\ log.evidence_search /\ log.fanout = AllPairs
                 /\ log.contradiction_search
                 /\ log.contradiction_calls = Len(contradiction_markers)
                 /\ log.scorer

\* a fabricated result: the detector queried the sources, nothing else ran
C5_Witness ==
    /\ Returned /\ Res.classification = "Fabricated"
    /\ log.source_calls > 0
    /\ ~log.evidence_search

C7_Original ==
    (h.mode = "score" /\ h.at = "rescored") =>
        /\ Len(h.contradictions) = 1
              => \/ h.score < h.previous
                 \/ h.score = h.previous /\ h.score = 0
        /\ h.score <= h.previous

\* C7: on the same evidence one contradiction gives a strictly lower score
\* than none, unless both scores are at the floor 0 or both at the ceiling
\* 100, and one more contradiction never raises the score.
C7_ContradictionsLower ==
    (h.mode = "score" /\ h.at = "rescored") =>
        /\ Len(h.contradictions) = 1
              => \/ h.score < h.previous
                 \/ h.score = h.previous /\ h.score \in {0, 100}
        /\ h.score <= h.previous

\* the first contradiction leaves a saturated score at 100
C7_Witness ==
    /\ h.mode = "score" /\ h.at = "rescored"
    /\ Len(h.contradictions) = 1
    /\ h.score = 100 /\ h.previous = 100

\* C8: get_confidence_color maps 0 to red, 1..30 to orange, 31..70 to yellow
\* and 71..100 to green, and the colour of every result analyze_claim
\* returns is the colour of its score.
C8_ColorBands ==
    /\ (h.mode = "classify" /\ h.at = "colored") =>
          h.color = (CASE h.score = 0 -> "red"
                       [] h.score \in 1..30 -> "orange"
                       [] h.score \in 31..70 -> "yellow"
                       [] h.score \in 71..100 -> "green")
    /\ Returned =>
          Res.confidence_color = (CASE Res.confidence_score = 0 -> "red"
                                    [] Res.confidence_score \in 1..30 -> "orange"
                                    [] Res.confidence_score \in 31..70 -> "yellow"
                                    [] Res.confidence_score \in 71..100 -> "green")

\* a score on the upper edge of a band was coloured
C8_Witness ==
    /\ h.mode = "classify" /\ h.at = "colored"
    /\ h.score = 30 /\ h.color = "orange"

\* C9: a source search whose request fails (connection error, timeout, bad
\* status, unparsable body) does not raise and returns the empty list; the
\* failure stops neither the fan-out, which calls every source for every
\* query, nor the contradiction search, and analyze_claim returns a result
\* built from the evidence that did arrive.
C9_NetworkFailureIsEmpty ==
    /\ log.last.fault = "network" => (~log.last.raised /\ log.last.ret = <<>>)
    /\ pc = "raised" => log.last.fault # "network"
    /\ (pc \in {"contra", "done"} /\ log.evidence_search) =>
          /\ log.fanout = AllPairs
          /\ Len(loc.all_evidence) <= Len(loc.queries) * Len(Sources) * EvidenceRows
    /\ (pc = "done" /\ log.evidence_search) =>
          /\ Returned
          /\ log.contradiction_calls = Len(contradiction_markers)
          /\ Res.top_evidence = Take(loc.evidence_list, MaxTopEvidence)
          /\ \A i \in 1..Len(Res.top_evidence) :
                \E j \in 1..Len(loc.all_evidence) :
                    loc.all_evidence[j].title = Res.top_evidence[i].title

\* a request of the fan-out failed and the result still carries evidence
C9_Witness ==
    /\ pc = "done" /\ Returned
    /\ [phase |-> "evidence", fault |-> "network"] \in log.failures
    /\ Res.top_evidence # <<>>

\* C10: when the cache cannot be read or written a source search behaves as
\* on a permanent miss: it does not raise, it queries the upstream and it
\* returns the records fetched, so that analyze_claim never ends in an
\* exception.
C10_CacheFailureIsMiss ==
    /\ log.last.fault \in {"cache_get", "cache_set"} =>
          /\ ~log.last.raised
          /\ log.last.contacted
          /\ log.last.ret = log.last.fetched
    /\ pc # "raised"

\* ============================================================ cache harness
\* Source searches with one and the same (source, query, max_results), issued
\* by several callers whose steps interleave freely: one after the other (a
\* first call and a later call) or overlapping (concurrent calls).  A search
\* is taken apart at the points where it touches the shelve file:
\*   cache_get: shelve.open - db.get - close     (before the try block)
\*   the request to the upstream and the parsing of its answer
\*   cache_set: shelve.open - db[key] = value - close   (inside the try block)
\* The code takes no lock.  shelve.open(CACHE_FILE) opens the file for reading
\* and writing; the shelve documentation excludes a second open while a
\* program has the shelf open for writing.  What a second open does then
\* depends on the dbm backend (dbm.dumb opens the file; dbm.gnu holds a lock
\* on it and fails the open with an error), so it is a choice between both.
MaxCallers == 2

Callers == 1..MaxCallers

HarnessQueries ==
    { Phrase(<<"memory", "fades">>),
      Phrase(<<"quantumflux-neuro">>),
      OrQuery(<<"memory", "recall">>) }

HarnessRows == {FuzzyRows, EvidenceRows}

NewCaller ==
    [pc |-> "call", entry_seen |-> FALSE, stored |-> <<>>, results |-> <<>>,
     ret |-> <<>>, contacted |-> FALSE, raised |-> FALSE, missed |-> FALSE]

InitCache ==
    /\ claim_data = [original_claim |-> <<>>, normalized_claim |-> <<>>]
    /\ world \in Worlds
    /\ seed = 1
    /\ cache = EmptyCache
    /\ pc = "idle"
    /\ loc = InitLoc
    /\ result = <<>>
    /\ faults = 0
    /\ log = InitLog
    /\ \E source \in SourceSet, query \in HarnessQueries, max_results \in HarnessRows :
          h = [mode |-> "cache", source |-> source, query |-> query,
               max_results |-> max_results,
               key |-> get_cache_key(CachePrefix(source), query, max_results),
               callers |-> [c \in Callers |-> NewCaller],
               open |-> {}, changed |-> FALSE]

\* cached = cache_get(cache_key): shelve.open
CacheGetOpen(c) ==
    /\ h.mode = "cache" /\ h.callers[c].pc = "call"
    /\ \/ h' = [h EXCEPT !.callers[c].pc = "get", !.open = @ \cup {c}]
       \/ /\ h.open # {}
          /\ h' = [h EXCEPT !.callers[c].pc = "raised", !.callers[c].raised = TRUE]
    /\ UNCHANGED <<claim_data, world, seed, cache, pc, loc, result, faults, log>>

\* db.get(key), the shelf is closed; if cached: return cached
CacheGetRead(c) ==
    /\ h.mode = "cache" /\ h.callers[c].pc = "get"
    /\ LET cached == cache_get(cache, h.key)
           seen == [h EXCEPT !.open = @ \ {c},
                             !.callers[c].entry_seen = HasEntry(cache, h.key),
                             !.callers[c].stored = cached]
       IN h' = IF cached # <<>>
               THEN [seen EXCEPT !.callers[c].pc = "returned", !.callers[c].ret = cached]
               ELSE [seen EXCEPT !.callers[c].pc = "request", !.callers[c].missed = TRUE]
    /\ UNCHANGED <<claim_data, world, seed, cache, pc, loc, result, faults, log>>

\* the request, and the loop that builds and validates the results
Request(c) ==
    /\ h.mode = "cache" /\ h.callers[c].pc = "request"
    /\ h' = [h EXCEPT !.callers[c].pc = "set", !.callers[c].contacted = TRUE,
                      !.callers[c].results = Fetched(h.source, h.query, h.max_results)]
    /\ UNCHANGED <<claim_data, world, seed, cache, pc, loc, result, faults, log>>

\* cache_set(cache_key, results): shelve.open; its error is caught by the
\* except clause of the search, which returns []
CacheSetOpen(c) ==
    /\ h.mode = "cache" /\ h.callers[c].pc = "set"
    /\ \/ h' = [h EXCEPT !.callers[c].pc = "write", !.open = @ \cup {c}]
       \/ /\ h.open # {}
          /\ h' = [h EXCEPT !.callers[c].pc = "returned", !.callers[c].ret = <<>>]
    /\ UNCHANGED <<claim_data, world, seed, cache, pc, loc, result, faults, log>>

\* db[key] = value, the shelf is closed; return results
CacheSetWrite(c) ==
    /\ h.mode = "cache" /\ h.callers[c].pc = "write"
    /\ cache' = cache_set(cache, h.key, h.callers[c].results)
    /\ h' = [h EXCEPT !.open = @ \ {c},
                      !.callers[c].pc = "returned",
                      !.callers[c].ret = h.callers[c].results,
                      !.changed = @ \/ (/\ HasEntry(cache, h.key)
                                        /\ cache[h.key] # h.callers[c].results)]
    /\ UNCHANGED <<claim_data, world, seed, pc, loc, result, faults, log>>

NextCache ==
    \E c \in Callers :
        \/ CacheGetOpen(c)
        \/ CacheGetRead(c)
        \/ Request(c)
        \/ CacheSetOpen(c)
        \/ CacheSetWrite(c)

SpecCache == InitCache /\ [][NextCache]_vars

\* C11: once a search has fetched and stored its list under the key, every
\* later call with the same (source, query, max_results) returns the stored
\* list without a request to the upstream, whatever list was stored, and the
\* entry is never overwritten with a different value.
C11_StoredListIsServed ==
    h.mode = "cache" =>
        /\ \A c \in Callers :
              h.callers[c].entry_seen =>
                  /\ ~h.callers[c].contacted
                  /\ h.callers[c].pc \notin {"request", "set", "write"}
                  /\ h.callers[c].pc = "returned" => h.callers[c].ret = h.callers[c].stored
        /\ ~h.changed

\* C12: when searches with the same (source, query, max_results) run
\* concurrently and miss the cache, then under every interleaving all of
\* them complete, all return the same list, and afterwards the cache holds
\* exactly that list under the key.
C12_ConcurrentMissesConverge ==
    (/\ h.mode = "cache"
     /\ \A c \in Callers : h.callers[c].pc \in {"returned", "raised"}
     /\ \A c \in Callers : h.callers[c].raised \/ h.callers[c].missed)
        => /\ \A c \in Callers : ~h.callers[c].raised
           /\ \A c, d \in Callers : h.callers[c].ret = h.callers[d].ret
           /\ HasEntry(cache, h.key)
           /\ \A c \in Callers : cache[h.key] = h.callers[c].ret

\* ============================================================ dedup harness
\* Both deduplicators called on every list of up to MaxDedupLen records, and
\* then again on what they returned.  The records differ in the three fields
\* the deduplicators read: some share a DOI, some a title up to letter case,
\* some a URL, and one has none of the three.
MaxDedupLen == 3

DedupRecords ==
    { [doi |-> "10.1038/m1", title |-> "Memory fades with age",
       url |-> [site |-> "doi.org", id |-> "10.1038/m1"]],
      [doi |-> "10.1016/n3", title |-> "Memory fades with age",
       url |-> [site |-> "doi.org", id |-> "10.1016/n3"]],
      [doi |-> "", title |-> "memory fades with age",
       url |-> [site |-> "arxiv.org", id |-> "abs/1"]],
      [doi |-> "", title |-> "Models of memory",
       url |-> [site |-> "arxiv.org", id |-> "abs/1"]],
      [doi |-> "10.1038/M1", title |-> "Forgetting curves",
       url |-> [site |-> "doi.org", id |-> "10.1038/M1"]],
      [doi |-> "", title |-> "", url |-> NoUrl] }

InitDedup ==
    /\ IdlePipeline
    /\ \E evidence_list \in SeqsUpTo(DedupRecords, MaxDedupLen) :
          h = [mode |-> "dedup", at |-> "input", evidence_list |-> evidence_list,
               comprehensive |-> <<>>, comprehensive_again |-> <<>>,
               simple |-> <<>>, simple_again |-> <<>>]

DedupOnce ==
    /\ h.mode = "dedup" /\ h.at = "input"
    /\ h' = [h EXCEPT !.at = "once",
                      !.comprehensive = _deduplicate_evidence_comprehensive(h.evidence_list),
                      !.simple = _deduplicate_evidence(h.evidence_list)]
    /\ UNCHANGED <<claim_data, world, seed, cache, pc, loc, result, faults, log>>

DedupAgain ==
    /\ h.mode = "dedup" /\ h.at = "once"
    /\ h' = [h EXCEPT !.at = "twice",
                      !.comprehensive_again = _deduplicate_evidence_comprehensive(h.comprehensive),
                      !.simple_again = _deduplicate_evidence(h.simple)]
    /\ UNCHANGED <<claim_data, world, seed, cache, pc, loc, result, faults, log>>

NextDedup == DedupOnce \/ DedupAgain

SpecDedup == InitDedup /\ [][NextDedup]_vars

\* C13: deduplication is idempotent: the comprehensive deduplicator applied
\* to its own output returns that output unchanged, and so does the simple
\* title-keyed deduplicator.
C13_DedupIdempotent ==
    (h.mode = "dedup" /\ h.at = "twice") =>
        /\ h.comprehensive_again = h.comprehensive
        /\ h.simple_again = h.simple

\* both deduplicators removed records in the first pass and kept several
C13_Witness ==
    /\ h.mode = "dedup" /\ h.at = "twice"
    /\ Len(h.comprehensive) = 2 /\ Len(h.evidence_list) = 3
    /\ Len(h.simple) < Len(h.evidence_list) /\ h.simple # <<>>

\* =================================================== query expander harness
\* generate_concept_queries called on every claim of up to MaxClaimWords
\* words over a small vocabulary (content words, a stop word, a word of the
\* paraphrase table, repeated words), under every hash seed.
MaxClaimWords == 4

ClaimVocabulary == {"exercise", "improves", "memory", "the", "fades"}

InitQueries ==
    /\ claim_data = [original_claim |-> <<>>, normalized_claim |-> <<>>]
    /\ world = "empty"
    /\ seed \in 1..NumSeeds
    /\ cache = EmptyCache
    /\ pc = "idle"
    /\ loc = InitLoc
    /\ result = <<>>
    /\ faults = 0
    /\ log = InitLog
    /\ \E claim \in SeqsUpTo(ClaimVocabulary, MaxClaimWords) :
          h = [mode |-> "queries", at |-> "input", claim |-> claim, queries |-> <<>>]

GenerateQueries ==
    /\ h.mode = "queries" /\ h.at = "input"
    /\ h' = [h EXCEPT !.at = "generated",
                      !.queries = generate_concept_queries(h.claim, seed)]
    /\ UNCHANGED <<claim_data, world, seed, cache, pc, loc, result, faults, log>>

NextQueries == GenerateQueries

SpecQueries == InitQueries /\ [][NextQueries]_vars

\* C14: the query expander returns at most 12 queries, the first is the
\* verbatim claim, and the list is the first 12 of: the exact claim, at most
\* 3 paraphrases, at most 5 concept/synonym queries, the queries pairing
\* adjacent concepts, at most 5 phrase queries, in this order.
C14_QueriesBoundedAndOrdered ==
    (h.mode = "queries" /\ h.at = "generated") =>
        /\ Len(h.queries) <= 12
        /\ h.queries # <<>> /\ h.queries[1] = Phrase(h.claim)
        /\ \E p \in 0..3, c \in 0..5, a \in 0..12, f \in 0..5 :
              /\ Len(h.queries) = Min(12, 1 + p + c + a + f)
              /\ \A i \in 2..Len(h.queries) :
                    LET q == h.queries[i]
                    IN IF i <= 1 + p
                       THEN /\ q.kind = "phrase" /\ Len(q.words) = Len(h.claim)
                            /\ q.words # LowerAll(h.claim)
                       ELSE IF i <= 1 + p + c
                       THEN \/ q.kind = "or"
                            \/ q.kind = "phrase" /\ Len(q.words) = 1
                       ELSE IF i <= 1 + p + c + a
                       THEN q.kind = "and"
                       ELSE /\ q.kind = "phrase" /\ Len(q.words) \in 2..4
                            /\ \E s \in 1..Len(h.claim) :
                                  /\ s + Len(q.words) - 1 <= Len(h.claim)
                                  /\ q.words = SubSeq(LowerAll(h.claim), s,
                                                      s + Len(q.words) - 1)

\* a four-word claim with paraphrases: of its five phrases only the first fits
C14_Witness ==
    /\ h.mode = "queries" /\ h.at = "generated"
    /\ Len(h.queries) = 12 /\ Len(h.claim) = 4
    /\ h.queries[2].words # LowerAll(h.claim)
    /\ h.queries[11].kind = "and"
    /\ h.queries[12].kind = "phrase"

\* C15: the claim "Instantaneous knowledge transfer across any distance"
\* matches a critical domain rule: check_claim_plausibility finds it
\* implausible with a critical violation in the physics domain, and
\* analyze_claim returns it as "Physically Implausible" with score 0 and the
\* violations attached, without an evidence or a contradiction search.
C15_InstantaneousTransferImplausible ==
    claim_data.original_claim =
        <<"Instantaneous", "knowledge", "transfer", "across", "any", "distance">>
    => /\ ~check_claim_plausibility(claim_data.original_claim).overall_plausible
       /\ check_claim_plausibility(claim_data.original_claim).critical_violations
       /\ _check_physics_rules(claim_data.original_claim).violations # <<>>
       /\ Returned =>
             /\ Res.classification = "Physically Implausible"
             /\ Res.confidence_score = 0
             /\ Res.domain_violations # <<>>
             /\ ~log.evidence_search /\ ~log.contradiction_search
       /\ pc \in {"start", "done"}

\* the capitalized or hyphen-joined tokens of a claim, the stoplist excluded
CompoundTokens(text) ==
    {text[i] : i \in 1..Len(text)}
        \cap {"Telepathic", "Memory", "Instantaneous", "QuantumFlux-Neuro",
              "gravito-electroencephalography"}

\* C16: a claim that holds an invented compound term (capitalized or
\* hyphen-joined) for which every source returns zero hits on the exact and
\* on the fuzzy queries is returned as "Fabricated" with score 0 and a
\* non-empty fabricated_terms.  Read in favour of the code: only claims that
\* pass the domain rules are considered.
C16_InventedTermsFabricated ==
    (/\ Returned
     /\ ~check_claim_plausibility(claim_data.original_claim).critical_violations
     /\ \E term \in CompoundTokens(claim_data.original_claim) : ZeroHits(term))
        => /\ Res.classification = "Fabricated"
           /\ Res.confidence_score = 0
           /\ Res.fabricated_terms # <<>>

NatureRecord == [type |-> "peer-reviewed", venue |-> "Nature", doi |-> "10.1038/test123"]
PreprintRecord == [type |-> "preprint", venue |-> "arXiv", doi |-> ""]

C18_SameQueriesInEveryRun ==
    log.evidence_search =>
        \A s \in 1..NumSeeds :
            loc.queries = generate_concept_queries(claim_data.normalized_claim, s)

\* C19: every result of analyze_claim, on each of the three paths, holds all
\* thirteen fields of the result schema (the score an integer, the list
\* fields lists) and no field outside the schema, domain_violations being
\* the only optional one.
C19_ResultSchema ==
    Returned =>
        /\ SchemaKeys \subseteq Res.keys
        /\ Res.confidence_score \in Int
        /\ DOMAIN Res.drivers = 1..Len(Res.drivers)
        /\ DOMAIN Res.top_evidence = 1..Len(Res.top_evidence)
        /\ DOMAIN Res.fabricated_terms = 1..Len(Res.fabricated_terms)
        /\ DOMAIN Res.contradictions = 1..Len(Res.contradictions)
        /\ Res.keys \subseteq SchemaKeys \cup {"domain_violations"}

\* C20: no evidence is not an error: on an empty evidence list the scorer
\* returns 0 with the driver "no credible evidence found", whatever the
\* contradictions, and analyze_claim on the full path without evidence
\* returns a complete result: "Unsupported", score 0, empty top_evidence.
C20_NoEvidenceIsUnsupported ==
    /\ (h.mode = "score" /\ h.at # "input" /\ h.evidence_list = <<>>) =>
          /\ h.score = 0
          /\ \E i \in 1..Len(h.drivers) : h.drivers[i] = <<"no credible evidence found">>
    /\ (Returned /\ log.scorer /\ loc.evidence_list = <<>>) =>
          /\ Res.classification = "Unsupported"
          /\ Res.confidence_score = 0
          /\ Res.top_evidence = <<>>
          /\ \E i \in 1..Len(Res.drivers) : Res.drivers[i] = <<"no credible evidence found">>
          /\ SchemaKeys \subseteq Res.keys

\* the full path ran to its end for a claim no source holds evidence for
C20_Witness ==
    /\ Returned /\ log.scorer
    /\ log.fanout = AllPairs /\ loc.all_evidence = <<>>
    /\ Res.classification = "Unsupported"

\* ======================================================== reranker harness
\* rerank_evidence called directly, as the unit tests call it, on every list
\* of up to MaxRerankLen validated records; a record may occur several times,
\* so that more than MaxTopEvidence relevant records meet the cut.
MaxRerankLen == 6

RerankClaims == { <<"memory", "fades">>, <<"memory">> }

RerankRecords ==
    { validate_metadata(CrossrefResult(Catalog("rich", "crossref")[1])),
      validate_metadata(CrossrefResult(Catalog("rich", "crossref")[2])),
      validate_metadata(CrossrefResult(Catalog("rich", "crossref")[4])),
      validate_metadata(ArxivResult(Catalog("rich", "arxiv")[1])) }

InitRerank ==
    /\ IdlePipeline
    /\ \E claim \in RerankClaims,
          evidence_list \in SeqsUpTo(RerankRecords, MaxRerankLen) :
          h = [mode |-> "rerank", at |-> "input", claim |-> claim,
               evidence_list |-> evidence_list, top_evidence |-> <<>>]

\* top_evidence = reranker.rerank_evidence(claim, evidence_list)
Rerank ==
    /\ h.mode = "rerank" /\ h.at = "input"
    /\ h' = [h EXCEPT !.at = "ranked",
                      !.top_evidence = rerank_evidence(h.claim, h.evidence_list)]
    /\ UNCHANGED <<claim_data, world, seed, cache, pc, loc, result, faults, log>>

NextRerank == Rerank

\* the pipeline and the reranker harness
InitRank == Init \/ InitRerank

NextRank == Next \/ NextRerank

SpecRank == InitRank /\ [][NextRank]_vars

RECURSIVE IsSubsequence(_, _)
\* s can be obtained from t by leaving records out
IsSubsequence(s, t) ==
    IF s = <<>> THEN TRUE
    ELSE IF t = <<>> THEN FALSE
    ELSE IF Head(s) = Head(t) THEN IsSubsequence(Tail(s), Tail(t))
    ELSE IsSubsequence(s, Tail(t))

\* every scored record of the input, ordered by descending relevance
RankedPool(claim, evidence_list) ==
    SortDescending([i \in 1..Len(evidence_list) |-> ScoreEvidence(claim, evidence_list[i])],
                   <<>>)

\* what C21 states of a top_evidence list cut from the records `evidence_list`
WellRanked(claim, top_evidence, evidence_list) ==
    /\ Len(top_evidence) <= 5
    /\ IsSubsequence(top_evidence, RankedPool(claim, evidence_list))
    /\ \A i \in 1..Len(top_evidence) - 1 :
          FracGeq(top_evidence[i].relevance_score, top_evidence[i + 1].relevance_score)
    /\ \A i \in 1..Len(top_evidence) :
          LET e == top_evidence[i]
              similarity == calculate_similarity(claim, e)
          IN /\ e.is_relevant
             /\ e.is_relevant <=>
                   \/ FracGeq(e.relevance_score, [num |-> 1, den |-> 4])
                   \/ e.partial_support
             /\ e.relevance_score.den > 0
             /\ e.relevance_score.num >= 0
             /\ e.relevance_score.num <= e.relevance_score.den
             /\ e.partial_support =>
                   /\ FracGeq(e.relevance_score,
                              [num |-> Min(5 * similarity.den,
                                           5 * similarity.num + similarity.den),
                               den |-> 5 * similarity.den])
                   /\ FracGeq([num |-> Min(5 * similarity.den,
                                           5 * similarity.num + similarity.den),
                               den |-> 5 * similarity.den],
                              e.relevance_score)

\* C21: top_evidence has at most 5 records, is a subsequence of the
\* deduplicated and reranked evidence, is ordered by non-increasing
\* relevance_score and holds only records marked relevant (similarity at
\* least 0.25, or partial support); every relevance_score lies in [0,1] and
\* a partial-support record's score is its similarity plus 0.2, capped at 1.
C21_TopEvidenceRanked ==
    /\ (h.mode = "rerank" /\ h.at = "ranked") =>
          WellRanked(h.claim, h.top_evidence, h.evidence_list)
    /\ (Returned /\ Res.path = "full") =>
          WellRanked(claim_data.normalized_claim, Res.top_evidence,
                     _deduplicate_evidence_comprehensive(loc.all_evidence))
    /\ (Returned /\ Res.path # "full") => Res.top_evidence = <<>>

\* more relevant records than the cut keeps, of different relevance, one of
\* them relevant by its partial support alone
C21_Witness ==
    /\ h.mode = "rerank" /\ h.at = "ranked"
    /\ Len(h.top_evidence) = 5
    /\ Cardinality({i \in 1..Len(h.evidence_list) :
                       ScoreEvidence(h.claim, h.evidence_list[i]).is_relevant}) > 5
    /\ ~FracGeq(h.top_evidence[5].relevance_score, h.top_evidence[1].relevance_score)
    /\ ~FracGeq(h.top_evidence[5].relevance_score, [num |-> 1, den |-> 4])
    /\ h.top_evidence[5].partial_support

\* ======================================================== metadata harness
\* validate_metadata called directly on records whose excerpt has every
\* length up to MaxExcerptLen, with and without title, venue, DOI and link.
MaxExcerptLen == 204

MetadataUrls ==
    { NoUrl, [site |-> "doi.org", id |-> "10.1038/m1"], [site |-> "arxiv.org", id |-> "abs/1"] }

InitMetadata ==
    /\ IdlePipeline
    /\ \E title \in {"", "Memory decay"}, venue \in {"", "Nature"},
          doi \in {"", "10.1038/m1"}, url \in MetadataUrls,
          len \in 0..MaxExcerptLen :
          h = [mode |-> "metadata", at |-> "input",
               result |-> [type |-> "peer-reviewed", title |-> title, venue |-> venue,
                           doi |-> doi, url |-> url,
                           excerpt |-> [len |-> len, words |-> {}],
                           source |-> "CrossRef"],
               validated |-> <<>>]

\* validated = MetadataValidator.validate_metadata(result)
Validate ==
    /\ h.mode = "metadata" /\ h.at = "input"
    /\ h' = [h EXCEPT !.at = "validated", !.validated = <<validate_metadata(h.result)>>]
    /\ UNCHANGED <<claim_data, world, seed, cache, pc, loc, result, faults, log>>

NextMetadata == Validate

\* the pipeline and the metadata harness
InitMeta == Init \/ InitMetadata

NextMeta == Next \/ NextMetadata

SpecMeta == InitMeta /\ [][NextMeta]_vars

\* every record of the list has an excerpt of at most n characters
ExcerptsWithin(evidence_list, n) ==
    \A i \in 1..Len(evidence_list) : evidence_list[i].excerpt.len <= n

\* the records analyze_claim holds: fetched, deduplicated and reranked,
\* contradicting, and returned
PipelineExcerptsWithin(n) ==
    /\ ExcerptsWithin(loc.all_evidence, n)
    /\ ExcerptsWithin(loc.evidence_list, n)
    /\ ExcerptsWithin(loc.contradictions, n)
    /\ ExcerptsWithin(log.last.ret, n)
    /\ Returned => ExcerptsWithin(Res.top_evidence, n)

\* C22 as stated: after validate_metadata the excerpt has at most 200
\* characters, for every input excerpt length, so no record that reaches
\* the deduplicator, the reranker or top_evidence has a longer excerpt.
C22_Original ==
    /\ (h.mode = "metadata" /\ h.at = "validated") =>
          h.validated[1].excerpt.len <= 200
    /\ PipelineExcerptsWithin(200)

\* C22, amended: validate_metadata cuts an excerpt of more than 200
\* characters to 200 and appends "...", which leaves 203 characters, and
\* leaves a shorter excerpt as it is; the records of the pipeline have at
\* most 200 characters, as each search cuts the abstract to 200 beforehand.
C22_ExcerptCutWithEllipsis ==
    /\ (h.mode = "metadata" /\ h.at = "validated") =>
          /\ h.validated[1].excerpt.len <= 203
          /\ h.result.excerpt.len <= 200 =>
                h.validated[1].excerpt.len = h.result.excerpt.len
          /\ h.result.excerpt.len > 200 => h.validated[1].excerpt.len = 203
    /\ PipelineExcerptsWithin(200)

\* an excerpt of more than 203 characters has been validated
C22_Witness ==
    /\ h.mode = "metadata" /\ h.at = "validated"
    /\ h.result.excerpt.len > 203
    /\ h.validated[1].excerpt.len = 203

HighTrustCount(evidence_list) ==
    Cardinality({i \in 1..Len(evidence_list) :
                    /\ evidence_list[i].type = "peer-reviewed"
                    /\ evidence_list[i].venue \in
                           {"Nature", "The Lancet", "Neuroscience Letters"}})

BandLines(score) ==
    IF score = 0 THEN { <<"no credible evidence found">>,
                        <<"strong contradictions override supporting evidence">> }
    ELSE IF score < 30 THEN { <<"very weak or contradicted evidence">> }
    ELSE IF score < 50
    THEN { <<"limited evidence with significant gaps or contradictions">> }
    ELSE IF score < 70
    THEN { <<"mixed evidence with some supporting sources but limited confidence">> }
    ELSE IF score < 90
    THEN { <<"good evidence but not yet fully established or lacks peer review">> }
    ELSE { <<"strong primary evidence with peer-reviewed sources and replications">> }

\* C25: the drivers are the first 3 lines, in insertion order, of: one line
\* per evidence record in evidence order, then one contradiction line if
\* there is a contradiction, then one line chosen by the score band; the
\* list has between 1 and 3 entries.
C25_DriversFirstThree ==
    (h.mode = "score" /\ h.at # "input") =>
        LET n == Len(h.evidence_list)
            c == Len(h.contradictions)
            summary == IF c > 0 THEN 1 ELSE 0
            total == n + summary + 1
        IN /\ Len(h.drivers) = (IF total < 3 THEN total ELSE 3)
           /\ Len(h.drivers) \in 1..3
           /\ \A i \in 1..Len(h.drivers) :
                 IF i <= n
                 THEN /\ Len(h.drivers[i]) = 2
                      /\ h.drivers[i][1] \in {"human peer-reviewed study found",
                                              "preclinical/mechanistic study found"}
                      /\ h.drivers[i][2] = h.evidence_list[i].doi
                 ELSE IF i = n + 1 /\ c > 0
                 THEN h.drivers[i] = <<"contradicted by", c>>
                 ELSE h.drivers[i] \in BandLines(h.score)

\* two evidence lines and the contradiction line fill the list, and the
\* band line is cut
C25_Witness ==
    /\ h.mode = "score" /\ h.at = "scored"
    /\ Len(h.evidence_list) = 2
    /\ Len(h.contradictions) = 1
    /\ Len(h.drivers) = 3
    /\ h.drivers[3] = <<"contradicted by", 1>>

\* a non-empty key of record a equals the corresponding key of record b,
\* letter case aside
SharesKey(a, b) ==
    \/ a.doi # "" /\ Lower(a.doi) = Lower(b.doi)
    \/ a.title # "" /\ Lower(a.title) = Lower(b.title)
    \/ a.url # NoUrl /\ a.url.site = b.url.site /\ Lower(a.url.id) = Lower(b.url.id)

RECURSIVE IsKept(_, _)
\* record i shares no key with an earlier record that is kept
IsKept(evidence_list, i) ==
    \A j \in 1..(i - 1) :
        IsKept(evidence_list, j) => ~SharesKey(evidence_list[i], evidence_list[j])

\* the kept records, in input order
KeptRecords(evidence_list) ==
    LET kept == {i \in 1..Len(evidence_list) : IsKept(evidence_list, i)}
        nth(k) == CHOOSE i \in kept : Cardinality({j \in kept : j <= i}) = k
    IN [k \in 1..Cardinality(kept) |-> evidence_list[nth(k)]]

\* C26: the comprehensive deduplicator returns, in input order, the records
\* none of whose non-empty keys (identifier, title, link, letter case aside)
\* equals the corresponding key of an earlier kept record; so no two
\* returned records share a non-empty key and the first appearance of each
\* work is the one kept.
C26_FirstAppearanceKept ==
    (h.mode = "dedup" /\ h.at # "input") =>
        /\ h.comprehensive = KeptRecords(h.evidence_list)
        /\ IsSubsequence(h.comprehensive, h.evidence_list)
        /\ \A i, j \in 1..Len(h.comprehensive) :
              i # j => ~SharesKey(h.comprehensive[i], h.comprehensive[j])
        /\ h.evidence_list # <<>> =>
              /\ h.comprehensive # <<>>
              /\ h.comprehensive[1] = h.evidence_list[1]

\* a record was dropped although its identifier and its title are written
\* differently from those of every earlier record: for its link, or for its
\* identifier in another letter case
C26_Witness ==
    /\ h.mode = "dedup" /\ h.at = "once"
    /\ Len(h.evidence_list) = 3
    /\ \E i \in 2..3 :
          /\ ~IsKept(h.evidence_list, i)
          /\ \A j \in 1..(i - 1) :
                /\ h.evidence_list[i].doi # h.evidence_list[j].doi
                /\ Lower(h.evidence_list[i].title) # Lower(h.evidence_list[j].title)
    /\ Len(h.comprehensive) = 2

\* the step ends search_term_existence for the current term
TermFinished ==
    /\ pc \in {"exact", "fuzzy"}
    /\ pc' # "raised"
    /\ pc' \notin {"exact", "fuzzy"} \/ loc'.ti # loc.ti

\* the hit counts of the current term once the call of this step is added
ExactHitsAfter == loc.exact_hits + (IF pc = "exact" THEN Len(log'.last.ret) ELSE 0)
FuzzyHitsAfter == IF pc = "fuzzy" THEN loc.fuzzy_hits + Len(log'.last.ret) ELSE 0

\* the detector's handling of one term, step by step
DetectorStep ==
    /\ (pc = "exact" /\ pc' = "fuzzy") =>
          /\ loc.k = 3
          /\ ExactHitsAfter = 0
    /\ pc = "fuzzy" =>
          /\ loc.exact_hits = 0
          /\ loc.k <= 3 * 3
          /\ Len(fuzzy_search(normalize_term(loc.terms[loc.ti]))) <= 10
          /\ log'.last.phase = "fuzzy"
    /\ (pc = "exact" /\ loc.k = 3 /\ pc' # "raised" /\ ExactHitsAfter # 0) =>
          TermFinished
    /\ TermFinished =>
          LET term == loc.terms[loc.ti]
              n == Len(loc.fabricated_terms)
          IN IF ExactHitsAfter = 0 /\ FuzzyHitsAfter = 0
             THEN /\ pc = "fuzzy"
                  /\ Len(loc'.fabricated_terms) = n + 1
                  /\ loc'.fabricated_terms[n + 1].term = term
                  /\ loc'.fabricated_terms[n + 1].confidence =
                         (IF WordLen(term) > 5 THEN "high" ELSE "medium")
                  /\ \A i \in 1..n : loc'.fabricated_terms[i] = loc.fabricated_terms[i]
             ELSE loc'.fabricated_terms = loc.fabricated_terms

\* C27: a candidate term is reported as fabricated iff its exact hits over
\* the three sources total 0 and its fuzzy hits total 0; fuzzy queries are
\* issued only after the exact queries of the term returned 0 hits in all,
\* for at most 3 of the at most 10 generated variants; the confidence of a
\* finding is "high" iff the term is longer than 5 characters, else "medium".
C27_FabricatedIffNoHits == [][DetectorStep]_vars

\* a term of four characters was found under a fuzzy variation only and is
\* not reported, while a longer term without any hit is
C27_Witness ==
    /\ Returned /\ Res.path = "fabricated"
    /\ loc.terms = <<"Zorb", "Memory">>
    /\ Res.fabricated_terms = <<"Memory">>
    /\ loc.fabricated_terms[1].confidence = "high"

\* C28: on the full path a confidence_score of at least 90 implies "Fully
\* Supported": at most 5 records are scored and a record that is not
\* peer-reviewed adds only the smaller weight, so 90 is out of reach without
\* a peer-reviewed record; "Partially Supported" occurs only with a score of
\* 50..89 and "Unsupported" only with a score below 50.
C28_HighScoreIsFullySupported ==
    /\ (Returned /\ Res.path = "full") =>
          /\ Len(loc.evidence_list) <= 5
          /\ Res.confidence_score >= 90 => Res.classification = "Fully Supported"
          /\ Res.classification = "Partially Supported" =>
                Res.confidence_score >= 50 /\ Res.confidence_score < 90
          /\ Res.classification = "Unsupported" => Res.confidence_score < 50
          /\ Res.classification \in
                {"Fully Supported", "Partially Supported", "Unsupported"}
    /\ (/\ h.mode = "score" /\ h.at # "input"
        /\ Len(h.evidence_list) <= 5
        /\ \A i \in 1..Len(h.evidence_list) : h.evidence_list[i].type # "peer-reviewed") =>
          h.score < 90

\* the full path returned a score of at least 90
C28_Witness ==
    /\ Returned /\ Res.path = "full"
    /\ Res.confidence_score >= 90
    /\ Res.contradictions # <<>>
    /\ Res.classification = "Fully Supported"

\* C29: source unavailability alone never produces a "Fabricated" verdict:
\* when analyze_claim reports a term as fabricated, every source call made
\* for the term answered with zero hits, so the sources hold nothing for
\* the term, neither exactly nor under the fuzzy variations tried; failed
\* requests do not make a term fabricated.
C29_FabricatedOnlyOnAnswers ==
    (/\ Returned /\ Res.path = "fabricated"
     /\ \A failure \in log.failures : failure.fault = "network") =>
        /\ \A i \in 1..Len(Res.fabricated_terms) : ZeroHits(Res.fabricated_terms[i])
        /\ \A failure \in log.failures : failure.phase \notin {"exact", "fuzzy"}

\* what one source call does to the cache
CacheStep ==
    log'.source_calls # log.source_calls =>
        LET last == log'.last
            key == last.key
        IN /\ key[1] = CachePrefix(last.source)
           /\ last.fault = "network" =>
                 /\ last.contacted
                 /\ cache' = cache
           /\ cache' # cache =>
                 /\ last.fault = "none" /\ last.contacted
                 /\ DOMAIN cache' = DOMAIN cache \cup {key}
                 /\ cache'[key] = last.fetched
                 /\ cache'[key] = last.ret
                 /\ \A k \in DOMAIN cache : cache'[k] = cache[k]
           /\ (key \notin DOMAIN cache /\ last.fault # "cache_get") => last.contacted
           /\ (~last.contacted /\ last.fault = "none") =>
                 /\ key \in DOMAIN cache
                 /\ last.ret = cache[key]
                 /\ last.ret = last.fetched

\* C30: a source search whose request fails leaves the cache unchanged, so a
\* later call with the same (source, query, max_results) contacts the
\* upstream again; only the result of a successful fetch is written, under
\* the key of its source, and a source is never answered from the entry of
\* another source.
C30_FailureLeavesCacheAlone == [][CacheStep]_vars

\* a request failed, and a later call with the same key has fetched and
\* stored the records
C30_Witness ==
    /\ log.last.key \in log.failed_keys
    /\ log.last.fault = "none" /\ log.last.contacted
    /\ log.last.ret # <<>>
    /\ log.last.key \in DOMAIN cache
    /\ cache[log.last.key] = log.last.ret

====
